---- MODULE Spec2Model ----
(***************************************************************************)
(* Analysis / fix job orchestrator of dev-pulse-backend.                   *)
(*                                                                         *)
(* The model follows src/routes/auth.routes.js: the HTTP handlers          *)
(* analyzeRepository, triggerAIFix and autonomousHighImpactFix, and the    *)
(* background workflows performAnalysis, runAIFixWorkflow and              *)
(* runAutonomousHighImpactFix.  Every `await` of the source is a           *)
(* suspension point, so every awaited call is one action; the code that    *)
(* runs synchronously after an await resolves belongs to the same action.  *)
(***************************************************************************)
EXTENDS Integers, Sequences, FiniteSets, TLC

VARIABLES
    analyses,   \* table "analyses": analysis_id -> row
    fixJobs,    \* table "autonomous_fix_jobs": job_id -> row
    pa,         \* per analysis id: the analyzeRepository request and its performAnalysis task
    fw,         \* runAIFixWorkflow instances (inline follow-up or started by triggerAIFix)
    af,         \* per fix job id: the autonomousHighImpactFix request and its task
    dirs,       \* the workspace directories that exist under ../temp
    storeErrors,\* how many more inserts/updates the store answers with an error
    call        \* a call of extractJSON or identifyHighImpactIssues on its own: argument and result

vars == <<analyses, fixJobs, pa, fw, af, dirs, storeErrors, call>>

-----------------------------------------------------------------------------
(* Bounds                                                                  *)

MaxAnalyses == 1
MaxTriggered == 1
MaxFixJobs == 1
MaxStoreErrors == 1

AnalysisIds == 1..MaxAnalyses
TriggerIds == 1..MaxTriggered
FixJobIds == 1..MaxFixJobs

\* runAIFixWorkflow instances: one inline follow-up per analysis, and the triggered ones
FixWorkflowIds == {<<"inline", a>> : a \in AnalysisIds} \cup {<<"trigger", t>> : t \in TriggerIds}

-----------------------------------------------------------------------------
(* Values                                                                  *)

\* A nullable column or local: <<>> is null/undefined, <<v>> holds v
Null == <<>>
Some(v) == <<v>>
IsSet(x) == x # Null
Val(x) == x[1]

\* The workspace paths path.join(__dirname, "../temp", ...)
AnalysisDir(a) == <<"temp", "analysis", a>>
FixDir(a) == <<"temp", "analysis-fix", a>>
AutofixDir(j) == <<"temp", "autofix", j>>

-----------------------------------------------------------------------------
(* The store client                                                        *)

\* A write resolves with {data, error}; none of the writers looks at error
StoreOutcomes == IF storeErrors > 0 THEN {"ok", "error"} ELSE {"ok"}

\* the errors the store has left after answering with this outcome
StoreErrorsAfter(outcome) == IF outcome = "error" THEN storeErrors - 1 ELSE storeErrors

\* .update(fields).eq(key, id): the listed columns of the matching row change
Merge(fields, row) ==
    [k \in DOMAIN row |-> IF k \in DOMAIN fields THEN fields[k] ELSE row[k]]

Update(table, id, fields, outcome) ==
    IF outcome = "ok" /\ id \in DOMAIN table
    THEN [table EXCEPT ![id] = Merge(fields, table[id])]
    ELSE table

\* .insert(row): columns that are not given are null
Insert(table, id, row, outcome) ==
    IF outcome = "ok" /\ id \notin DOMAIN table
    THEN (id :> row) @@ table
    ELSE table

AnalysisColumns ==
    {"user_id", "repo_url", "repo_name", "repo_owner", "status", "progress",
     "current_step", "message", "error", "structure", "code_quality",
     "ai_analysis", "ai_fix_result", "created_at", "completed_at", "updated_at"}

FixJobColumns ==
    {"analysis_id", "repo_name", "repo_owner", "status", "progress", "message",
     "error", "high_impact_issues", "fixes_applied", "files_modified", "pr_url",
     "pr_number", "created_at", "completed_at", "updated_at"}

NewRow(columns, given) ==
    [k \in columns |-> IF k \in DOMAIN given THEN given[k] ELSE Null]

-----------------------------------------------------------------------------
(* External collaborators: what an awaited call can answer                 *)

\* fs.mkdir(tempDir, {recursive: true}) resolves or rejects
MkdirErrors == {"EACCES: permission denied, mkdir"}

\* git clone: exit code 0, or a nonzero exit with its stderr
CloneStderr == {"fatal: repository not found (404)", "fatal: could not read from remote"}

\* The agent's stdout as a sequence of tokens: "{" and "}" are the braces, "x" is any
\* other text that is not JSON, and every other token is a member `"key": value` of an
\* object (or, before a "{", the `"key":` of a member whose value is the object).
IsKey(token) == token \notin {"{", "}", "x"}

\* What the agent's stdout is: prose and the full answer, an answer without a score, prose
\* only, an object that is not valid JSON
AgentOutputs ==
    {<<"x", "{", "architecture", "codeQuality", "security", "}">>,
     <<"{", "architecture", "}">>,
     <<"x">>,
     <<"{", "x", "}">>}

\* runClineTask settles with the captured stdout or rejects
RunClineTaskResults ==
    {[ok |-> TRUE, output |-> o, error |-> ""] : o \in AgentOutputs}
    \cup {[ok |-> FALSE, output |-> <<>>, error |-> e] :
            e \in {"Cline execution failed", "Cline timeout"}}

\* output.indexOf(ch, from): the first position at or after `from`, 0 when there is none
RECURSIVE indexOf(_, _, _)
indexOf(output, ch, from) ==
    IF from > Len(output) THEN 0
    ELSE IF output[from] = ch THEN from
    ELSE indexOf(output, ch, from + 1)

\* the for loop of extractJSON: the position where the brace count is back at zero, 0 for none
RECURSIVE endIndexFrom(_, _, _)
endIndexFrom(output, i, stack) ==
    IF i > Len(output) THEN 0
    ELSE LET counted == IF output[i] = "{" THEN stack + 1
                        ELSE IF output[i] = "}" THEN stack - 1
                        ELSE stack
         IN  IF counted = 0 THEN i ELSE endIndexFrom(output, i + 1, counted)

\* the while loop of extractJSON: it stops at the first "{" that is never closed
RECURSIVE collectJsonMatches(_, _)
collectJsonMatches(output, searchStart) ==
    IF searchStart > Len(output) THEN <<>>
    ELSE LET startIndex == indexOf(output, "{", searchStart)
             endIndex == endIndexFrom(output, startIndex, 0)
         IN  IF startIndex = 0 \/ endIndex = 0 THEN <<>>
             ELSE <<SubSeq(output, startIndex, endIndex)>>
                      \o collectJsonMatches(output, endIndex + 1)

allJsonMatches(output) == collectJsonMatches(output, 1)

\* how many braces are open before position i of a candidate
RECURSIVE DepthBefore(_, _)
DepthBefore(candidate, i) ==
    IF i <= 1 THEN 0
    ELSE DepthBefore(candidate, i - 1)
            + (IF candidate[i - 1] = "{" THEN 1 ELSE IF candidate[i - 1] = "}" THEN -1 ELSE 0)

\* JSON.parse of a candidate: it throws when the candidate holds text that is not JSON or an
\* object that is not the value of a member; else the object, here its top-level keys
JSONParse(candidate) ==
    [ok |-> \A i \in 1..Len(candidate) :
                /\ candidate[i] # "x"
                /\ (i > 1 /\ candidate[i] = "{") => IsKey(candidate[i - 1]),
     value |-> [keys |-> {candidate[i] : i \in {n \in 1..Len(candidate) :
                                IsKey(candidate[n]) /\ DepthBefore(candidate, n) = 1}},
                tokens |-> candidate]]

\* the value of a member of the agent's answer
MemberValue(key) ==
    CASE key = "architecture" -> "MVC"
      [] key = "codeQuality" -> 80
      [] key = "security" -> <<[severity |-> "high", file |-> Some("src/app.js")]>>
      [] OTHER -> <<>>

\* parsed[key]: undefined when the object has no such member
Member(parsed, key) == IF key \in parsed.keys THEN Some(MemberValue(key)) ELSE Null

\* extractJSON on the agent's stdout: the parsed object, or the error it throws
extractJSON(output) ==
    LET matches == allJsonMatches(output)
        parsed == [i \in 1..Len(matches) |-> JSONParse(matches[i])]
        accepted == {i \in 1..Len(matches) :
                        /\ parsed[i].ok
                        /\ \/ "architecture" \in parsed[i].value.keys
                           \/ "codeQuality" \in parsed[i].value.keys}
        last == CHOOSE i \in accepted : \A k \in accepted : k <= i
    IN  IF Len(matches) = 0
        THEN [ok |-> FALSE, error |-> "No JSON found", json |-> Null]
        ELSE IF accepted # {}
        THEN [ok |-> TRUE, error |-> "", json |-> Some(parsed[last].value)]
        ELSE IF parsed[Len(matches)].ok
        THEN [ok |-> TRUE, error |-> "", json |-> Some(parsed[Len(matches)].value)]
        ELSE [ok |-> FALSE, error |-> "Unexpected token in JSON", json |-> Null]

\* runAIAnalysis: the agent's answer, or the fallback object of its catch
runAIAnalysis(task) ==
    LET parsed == extractJSON(task.output)
        jsonData == Val(parsed.json)
        fallback(msg) ==
            [success |-> FALSE, error |-> Some(msg), pattern |-> "Error",
             score |-> 0, bugs |-> <<>>, security |-> <<>>]
    IN  IF ~task.ok THEN fallback(task.error)
        ELSE IF ~parsed.ok THEN fallback(parsed.error)
        ELSE [success |-> TRUE, error |-> Null,
              pattern |-> IF IsSet(Member(jsonData, "architecture"))
                          THEN Val(Member(jsonData, "architecture")) ELSE "Unknown",
              score |-> IF IsSet(Member(jsonData, "codeQuality"))
                        THEN Val(Member(jsonData, "codeQuality")) ELSE 75,
              bugs |-> IF IsSet(Member(jsonData, "bugs"))
                       THEN Val(Member(jsonData, "bugs")) ELSE <<>>,
              security |-> IF IsSet(Member(jsonData, "security"))
                           THEN Val(Member(jsonData, "security")) ELSE <<>>]

\* as calculateScore, without the default for a missing score
calculateScoreNoDefault(aiAnalysis) ==
    LET score == aiAnalysis.score
    IN  [score |-> score,
         grade |-> IF score >= 90 THEN "A" ELSE IF score >= 80 THEN "B"
                   ELSE IF score >= 70 THEN "C" ELSE "D"]
\* calculateScore: score || 75, and the letter grade
calculateScore(aiAnalysis) ==
    LET score == IF aiAnalysis.score = 0 THEN 75 ELSE aiAnalysis.score
    IN  [score |-> score,
         grade |-> IF score >= 90 THEN "A" ELSE IF score >= 80 THEN "B"
                   ELSE IF score >= 70 THEN "C" ELSE "D"]

\* analyzeStructure: {totalFiles}; getAllFiles swallows every read error
analyzeStructure(dir) == [totalFiles |-> 1]

-----------------------------------------------------------------------------
(* The rows the analysis workflow writes                                   *)

\* analyzeRepository's insert
PendingRow ==
    NewRow(AnalysisColumns,
           [user_id |-> Null, repo_url |-> "repo_url", repo_name |-> "repo_name",
            repo_owner |-> "repo_owner", status |-> "pending", progress |-> 0,
            message |-> "Analysis queued...", created_at |-> Some("now")])

\* as updateProgress, also writing the repository's name
updateProgressWithRepo(status, progress, step, message) ==
    [status |-> status, progress |-> progress, current_step |-> Some(step),
     message |-> message, repo_name |-> message]
\* updateProgress(analysisId, status, progress, step, message)
updateProgress(status, progress, step, message) ==
    [status |-> status, progress |-> progress, current_step |-> Some(step),
     message |-> message]

CloningWrite == updateProgress("cloning", 15, 1, "Cloning repository...")
AnalyzingWrite == updateProgress("analyzing", 30, 2, "Analyzing structure...")
\* as AiAnalyzingWrite, with the progress of another step count
AiAnalyzingWriteOtherProgress ==
    updateProgress("ai_analyzing", 50, 5, "Running AI analysis...")
AiAnalyzingWrite == updateProgress("ai_analyzing", 75, 5, "Running AI analysis...")
\* as ScoringWrite, with a digit of the progress lost
ScoringWriteLowProgress == updateProgress("analyzing", 9, 6, "Calculating score...")
ScoringWrite == updateProgress("analyzing", 90, 6, "Calculating score...")

\* as CompletedWrite, without the structure column
CompletedWriteNoStructure(structure, codeQuality, aiAnalysis) ==
    [status |-> "completed", progress |-> 100, current_step |-> Some(6),
     message |-> "Analysis complete", code_quality |-> Some(codeQuality),
     ai_analysis |-> Some(aiAnalysis), completed_at |-> Some("now")]

\* as CompletedWrite, without the progress column
CompletedWriteNoProgress(structure, codeQuality, aiAnalysis) ==
    [status |-> "completed", current_step |-> Some(6),
     message |-> "Analysis complete", structure |-> Some(structure),
     code_quality |-> Some(codeQuality), ai_analysis |-> Some(aiAnalysis),
     completed_at |-> Some("now")]

\* the update that completes an analysis
CompletedWrite(structure, codeQuality, aiAnalysis) ==
    [status |-> "completed", progress |-> 100, current_step |-> Some(6),
     message |-> "Analysis complete", structure |-> Some(structure),
     code_quality |-> Some(codeQuality), ai_analysis |-> Some(aiAnalysis),
     completed_at |-> Some("now")]

\* as FailedWrite, without the error column
FailedWriteNoError(message) == [status |-> "failed", updated_at |-> Some("now")]

\* the update of performAnalysis's catch
FailedWrite(message) ==
    [status |-> "failed", error |-> Some(message), updated_at |-> Some("now")]

\* the updates of runAIFixWorkflow
FixResultWrite(prUrl) ==
    [ai_fix_result |-> Some([success |-> TRUE, pr_url |-> prUrl, error |-> ""])]
\* as FixErrorWrite, also marking the analysis failed
FixErrorWriteFailsAnalysis(message) ==
    [status |-> "failed", error |-> Some(message),
     ai_fix_result |-> Some([success |-> FALSE, pr_url |-> "", error |-> message])]
FixErrorWrite(message) ==
    [ai_fix_result |-> Some([success |-> FALSE, pr_url |-> "", error |-> message])]

-----------------------------------------------------------------------------
(* Tasks                                                                   *)

\* an analyzeRepository request that has not arrived yet
IdleAnalysis ==
    [pc |-> "idle", enableAIFix |-> FALSE, accessToken |-> Null, tempDir |-> Null,
     error |-> Null, structure |-> Null, aiAnalysis |-> Null, created |-> FALSE,
     cleaned |-> FALSE, raised |-> FALSE, response |-> Null]

\* a runAIFixWorkflow that has not been called
IdleFixWorkflow ==
    [pc |-> "idle", analysisId |-> 0, accessToken |-> Null, existingTempDir |-> Null,
     tempDir |-> Null, error |-> Null, created |-> FALSE, cleaned |-> FALSE,
     response |-> Null]

\* an autonomousHighImpactFix request that has not arrived yet
IdleAutofix ==
    [pc |-> "idle", analysisId |-> 0, analysis |-> Null, accessToken |-> Null,
     tempDir |-> Null, issues |-> <<>>, fixResult |-> Null, error |-> Null,
     created |-> FALSE, cleaned |-> FALSE, response |-> Null]

\* requests take the ids in order: an id is a fresh timestamp + random suffix
NextAnalysisId(a) == pa[a].pc = "idle" /\ \A b \in AnalysisIds : b < a => pa[b].pc # "idle"
NextTriggerId(t) ==
    /\ fw[<<"trigger", t>>].pc = "idle"
    /\ \A u \in TriggerIds : u < t => fw[<<"trigger", u>>].pc # "idle"
NextFixJobId(j) == af[j].pc = "idle" /\ \A k \in FixJobIds : k < j => af[k].pc # "idle"

Tokens == {Some("ghp_token")}

-----------------------------------------------------------------------------
(* analyzeRepository and performAnalysis                                   *)

\* the request arrives: 400 when repoUrl, repoName or owner is missing, else the insert is issued
AnalyzeRepository(a) ==
    /\ NextAnalysisId(a)
    /\ \E valid \in BOOLEAN, enableAIFix \in BOOLEAN, accessToken \in Tokens \cup {Null} :
         pa' = [pa EXCEPT ![a] =
                  IF valid
                  THEN [@ EXCEPT !.pc = "insert", !.enableAIFix = enableAIFix,
                                 !.accessToken = accessToken]
                  ELSE [@ EXCEPT !.pc = "rejected", !.response = Some(400)]]
    /\ UNCHANGED <<analyses, fixJobs, fw, af, dirs, storeErrors, call>>

\* the insert resolves: the response is sent and performAnalysis runs up to fs.mkdir
AnalyzeRepositoryInsert(a) ==
    /\ pa[a].pc = "insert"
    /\ \E o \in StoreOutcomes :
         /\ storeErrors' = StoreErrorsAfter(o)
         /\ analyses' = Insert(analyses, a, PendingRow, o)
    /\ pa' = [pa EXCEPT ![a].pc = "mkdir", ![a].response = Some(200),
                        ![a].tempDir = Some(AnalysisDir(a))]
    /\ UNCHANGED <<fixJobs, fw, af, dirs, call>>

\* as PACatch, also answering the creator of the job with a 500
PACatchAnswersCaller(task, message) ==
    [task EXCEPT !.pc = "w_failed", !.error = Some(message), !.raised = TRUE,
                 !.response = Some(500)]
\* control reaches performAnalysis's catch with the error thrown
PACatch(task, message) ==
    [task EXCEPT !.pc = "w_failed", !.error = Some(message), !.raised = TRUE]

PAMkdir(a) ==
    /\ pa[a].pc = "mkdir"
    /\ \/ /\ dirs' = dirs \cup {Val(pa[a].tempDir)}
          /\ pa' = [pa EXCEPT ![a].pc = "w_cloning", ![a].created = TRUE]
       \/ /\ \E e \in MkdirErrors : pa' = [pa EXCEPT ![a] = PACatch(@, e)]
          /\ UNCHANGED dirs
    /\ UNCHANGED <<analyses, fixJobs, fw, af, storeErrors, call>>

PAWriteCloning(a) ==
    /\ pa[a].pc = "w_cloning"
    /\ \E o \in StoreOutcomes :
         /\ storeErrors' = StoreErrorsAfter(o)
         /\ analyses' = Update(analyses, a, CloningWrite, o)
    /\ pa' = [pa EXCEPT ![a].pc = "clone"]
    /\ UNCHANGED <<fixJobs, fw, af, dirs, call>>

\* cloneRepository: resolves on exit code 0, rejects with the stderr on any other exit
CloneErrors == {"Git clone failed: " \o e : e \in CloneStderr}

PAClone(a) ==
    /\ pa[a].pc = "clone"
    /\ \/ pa' = [pa EXCEPT ![a].pc = "w_analyzing"]
       \/ \E e \in CloneErrors : pa' = [pa EXCEPT ![a] = PACatch(@, e)]
    /\ UNCHANGED <<analyses, fixJobs, fw, af, dirs, storeErrors, call>>

PAWriteAnalyzing(a) ==
    /\ pa[a].pc = "w_analyzing"
    /\ \E o \in StoreOutcomes :
         /\ storeErrors' = StoreErrorsAfter(o)
         /\ analyses' = Update(analyses, a, AnalyzingWrite, o)
    /\ pa' = [pa EXCEPT ![a].pc = "structure"]
    /\ UNCHANGED <<fixJobs, fw, af, dirs, call>>

PAStructure(a) ==
    /\ pa[a].pc = "structure"
    /\ pa' = [pa EXCEPT ![a].pc = "w_ai_analyzing",
                        ![a].structure = Some(analyzeStructure(Val(pa[a].tempDir)))]
    /\ UNCHANGED <<analyses, fixJobs, fw, af, dirs, storeErrors, call>>

PAWriteAiAnalyzing(a) ==
    /\ pa[a].pc = "w_ai_analyzing"
    /\ \E o \in StoreOutcomes :
         /\ storeErrors' = StoreErrorsAfter(o)
         /\ analyses' = Update(analyses, a, AiAnalyzingWrite, o)
    /\ pa' = [pa EXCEPT ![a].pc = "ai"]
    /\ UNCHANGED <<fixJobs, fw, af, dirs, call>>

\* runAIAnalysis never rejects: a failed agent run or extraction gives the fallback object
PARunAIAnalysis(a) ==
    /\ pa[a].pc = "ai"
    /\ \E task \in RunClineTaskResults :
         pa' = [pa EXCEPT ![a].pc = "w_scoring", ![a].aiAnalysis = Some(runAIAnalysis(task))]
    /\ UNCHANGED <<analyses, fixJobs, fw, af, dirs, storeErrors, call>>

PAWriteScoring(a) ==
    /\ pa[a].pc = "w_scoring"
    /\ \E o \in StoreOutcomes :
         /\ storeErrors' = StoreErrorsAfter(o)
         /\ analyses' = Update(analyses, a, ScoringWrite, o)
    /\ pa' = [pa EXCEPT ![a].pc = "w_completed"]
    /\ UNCHANGED <<fixJobs, fw, af, dirs, call>>

\* enableAIFix && accessToken
FollowUpRequested(task) == task.enableAIFix /\ IsSet(task.accessToken)

\* as StartFixWorkflow, always with a directory and a clone of its own
StartFixWorkflowOwnClone(a, accessToken, existingTempDir) ==
    [IdleFixWorkflow EXCEPT
        !.analysisId = a, !.accessToken = accessToken,
        !.existingTempDir = existingTempDir,
        !.tempDir = Some(FixDir(a)),
        !.pc = "mkdir"]
\* runAIFixWorkflow(analysis, accessToken, existingTempDir) up to its first await
StartFixWorkflow(a, accessToken, existingTempDir) ==
    [IdleFixWorkflow EXCEPT
        !.analysisId = a, !.accessToken = accessToken,
        !.existingTempDir = existingTempDir,
        !.tempDir = IF IsSet(existingTempDir) THEN existingTempDir ELSE Some(FixDir(a)),
        !.pc = IF IsSet(existingTempDir) THEN "config_name" ELSE "mkdir"]

\* the completing update resolves; then the follow-up fix is called, or the workspace released
PAWriteCompleted(a) ==
    /\ pa[a].pc = "w_completed"
    /\ \E o \in StoreOutcomes :
         /\ storeErrors' = StoreErrorsAfter(o)
         /\ analyses' = Update(analyses, a,
                            CompletedWrite(Val(pa[a].structure),
                                           calculateScore(Val(pa[a].aiAnalysis)),
                                           Val(pa[a].aiAnalysis)), o)
    /\ IF FollowUpRequested(pa[a])
       THEN /\ pa' = [pa EXCEPT ![a].pc = "await_fix"]
            /\ fw' = [fw EXCEPT ![<<"inline", a>>] =
                        StartFixWorkflow(a, pa[a].accessToken, pa[a].tempDir)]
       ELSE /\ pa' = [pa EXCEPT ![a].pc = "cleanup"]
            /\ UNCHANGED fw
    /\ UNCHANGED <<fixJobs, af, dirs, call>>

\* cleanupTempDir: fs.rm removes the directory, or fails and the failure is swallowed
cleanupTempDir(dir) == {dirs \ {dir}, dirs}

\* the follow-up fix returned: performAnalysis is finished
PAFixReturned(a) ==
    /\ pa[a].pc = "await_fix"
    /\ fw[<<"inline", a>>].pc = "done"
    /\ pa' = [pa EXCEPT ![a].pc = "done",
                        ![a].cleaned = fw[<<"inline", a>>].cleaned]
    /\ UNCHANGED <<analyses, fixJobs, fw, af, dirs, storeErrors, call>>

PACleanup(a) ==
    /\ pa[a].pc = "cleanup"
    /\ dirs' \in cleanupTempDir(Val(pa[a].tempDir))
    /\ pa' = [pa EXCEPT ![a].pc = "done", ![a].cleaned = TRUE]
    /\ UNCHANGED <<analyses, fixJobs, fw, af, storeErrors, call>>

\* the catch: the failing update, then cleanupTempDir when tempDir is set
PAWriteFailed(a) ==
    /\ pa[a].pc = "w_failed"
    /\ \E o \in StoreOutcomes :
         /\ storeErrors' = StoreErrorsAfter(o)
         /\ analyses' = Update(analyses, a, FailedWrite(Val(pa[a].error)), o)
    /\ pa' = [pa EXCEPT ![a].pc = IF IsSet(pa[a].tempDir) THEN "cleanup" ELSE "done"]
    /\ UNCHANGED <<fixJobs, fw, af, dirs, call>>

-----------------------------------------------------------------------------
(* Git, push and pull-request collaborators                                *)

\* runCommand rejects with new Error(stderr) on a nonzero exit
RunCommandErrors == {"fatal: git command failed"}

\* a failure to spawn is an 'error' event of the child process; runCommand registers no
\* listener for it, so the event is thrown as an uncaught exception
RunCommandSpawnErrors == {"spawn git EAGAIN"}

\* the uncaught exception ends the process: the task takes no further step
Crash(task, message) == [task EXCEPT !.pc = "crashed", !.error = Some(message)]

\* pushToGitHub: messages of its catch (403, and the generic one); error.message of a failed exec
\* carries the command line, which holds the authenticated URL
PushErrors(accessToken) ==
    {"GitHub auth failed. Token may lack 'repo' permissions.",
     "Push failed: Command failed: git push https://" \o Val(accessToken) \o "@github.com"}

\* createProductionReadyPR: response.data, or the GitHub API error
PullRequests == {[html_url |-> "https://github.com/pull/7", number |-> 7]}
PullRequestErrors == {"GitHub API error: Validation Failed"}

-----------------------------------------------------------------------------
(* triggerAIFix and runAIFixWorkflow                                       *)

\* the request arrives: 400 when analysisId or accessToken is missing, else the select is issued
TriggerAIFix(t) ==
    /\ NextTriggerId(t)
    /\ \E valid \in BOOLEAN, a \in AnalysisIds, accessToken \in Tokens :
         fw' = [fw EXCEPT ![<<"trigger", t>>] =
                  IF valid
                  THEN [@ EXCEPT !.pc = "select", !.analysisId = a,
                                 !.accessToken = accessToken]
                  ELSE [@ EXCEPT !.pc = "rejected", !.response = Some(400)]]
    /\ UNCHANGED <<analyses, fixJobs, pa, af, dirs, storeErrors, call>>

\* the select resolves: 404, 400, or the response and runAIFixWorkflow up to fs.mkdir
TriggerAIFixSelect(t) ==
    LET k == <<"trigger", t>>
        a == fw[k].analysisId
    IN  /\ fw[k].pc = "select"
        /\ fw' = [fw EXCEPT ![k] =
                    IF a \notin DOMAIN analyses
                    THEN [@ EXCEPT !.pc = "rejected", !.response = Some(404)]
                    ELSE IF analyses[a].status # "completed"
                    THEN [@ EXCEPT !.pc = "rejected", !.response = Some(400)]
                    ELSE [StartFixWorkflow(a, fw[k].accessToken, Null)
                            EXCEPT !.response = Some(200)]]
        /\ UNCHANGED <<analyses, fixJobs, pa, af, dirs, storeErrors, call>>

\* control reaches runAIFixWorkflow's catch with the error thrown
FWCatch(task, message) == [task EXCEPT !.pc = "w_error", !.error = Some(message)]

FWMkdir(k) ==
    /\ fw[k].pc = "mkdir"
    /\ \/ /\ dirs' = dirs \cup {Val(fw[k].tempDir)}
          /\ fw' = [fw EXCEPT ![k].pc = "clone", ![k].created = TRUE]
       \/ /\ \E e \in MkdirErrors : fw' = [fw EXCEPT ![k] = FWCatch(@, e)]
          /\ UNCHANGED dirs
    /\ UNCHANGED <<analyses, fixJobs, pa, af, storeErrors, call>>

FWClone(k) ==
    /\ fw[k].pc = "clone"
    /\ \/ fw' = [fw EXCEPT ![k].pc = "config_name"]
       \/ \E e \in CloneErrors : fw' = [fw EXCEPT ![k] = FWCatch(@, e)]
    /\ UNCHANGED <<analyses, fixJobs, pa, af, dirs, storeErrors, call>>

\* the git commands of runAIFixWorkflow in order, and what follows each
FWAfterCommand ==
    [config_name |-> "config_email", config_email |-> "checkout", checkout |-> "aifix",
     add |-> "commit", commit |-> "push"]

FWRunCommand(k) ==
    /\ fw[k].pc \in DOMAIN FWAfterCommand
    /\ \/ fw' = [fw EXCEPT ![k].pc = FWAfterCommand[fw[k].pc]]
       \/ \E e \in RunCommandErrors : fw' = [fw EXCEPT ![k] = FWCatch(@, e)]
       \/ \E e \in RunCommandSpawnErrors : fw' = [fw EXCEPT ![k] = Crash(@, e)]
    /\ UNCHANGED <<analyses, fixJobs, pa, af, dirs, storeErrors, call>>

\* runAIFix: the agent's stdout, or null when runClineTask rejects; an empty
\* stdout is as falsy as null, and then the workspace is released and the workflow returns
FWRunAIFix(k) ==
    /\ fw[k].pc = "aifix"
    /\ \E fixResult \in {Some("agent output"), Some(""), Null} :
         fw' = [fw EXCEPT ![k].pc = IF IsSet(fixResult) /\ Val(fixResult) # ""
                                    THEN "add" ELSE "cleanup"]
    /\ UNCHANGED <<analyses, fixJobs, pa, af, dirs, storeErrors, call>>

FWPush(k) ==
    /\ fw[k].pc = "push"
    /\ \/ fw' = [fw EXCEPT ![k].pc = "pr"]
       \/ \E e \in PushErrors(fw[k].accessToken) : fw' = [fw EXCEPT ![k] = FWCatch(@, e)]
    /\ UNCHANGED <<analyses, fixJobs, pa, af, dirs, storeErrors, call>>

\* the pull request is created and the update with its URL is issued
FWCreatePR(k) ==
    /\ fw[k].pc = "pr"
    /\ \/ fw' = [fw EXCEPT ![k].pc = "w_result"]
       \/ \E e \in PullRequestErrors : fw' = [fw EXCEPT ![k] = FWCatch(@, e)]
    /\ UNCHANGED <<analyses, fixJobs, pa, af, dirs, storeErrors, call>>

FWWriteResult(k) ==
    /\ fw[k].pc = "w_result"
    /\ \E o \in StoreOutcomes, pr \in PullRequests :
         /\ storeErrors' = StoreErrorsAfter(o)
         /\ analyses' = Update(analyses, fw[k].analysisId, FixResultWrite(pr.html_url), o)
    /\ fw' = [fw EXCEPT ![k].pc = "cleanup"]
    /\ UNCHANGED <<fixJobs, pa, af, dirs, call>>

FWCleanup(k) ==
    /\ fw[k].pc = "cleanup"
    /\ dirs' \in cleanupTempDir(Val(fw[k].tempDir))
    /\ fw' = [fw EXCEPT ![k].pc = "done", ![k].cleaned = TRUE]
    /\ UNCHANGED <<analyses, fixJobs, pa, af, storeErrors, call>>

\* the catch: the update with the error, then cleanupTempDir only for a directory of its own
FWWriteError(k) ==
    /\ fw[k].pc = "w_error"
    /\ \E o \in StoreOutcomes :
         /\ storeErrors' = StoreErrorsAfter(o)
         /\ analyses' = Update(analyses, fw[k].analysisId,
                            FixErrorWrite(Val(fw[k].error)), o)
    /\ fw' = [fw EXCEPT ![k].pc = IF IsSet(fw[k].tempDir) /\ ~IsSet(fw[k].existingTempDir)
                                  THEN "cleanup" ELSE "done"]
    /\ UNCHANGED <<fixJobs, pa, af, dirs, call>>

-----------------------------------------------------------------------------
(* identifyHighImpactIssues and fix generation                             *)

\* as HighImpact, keeping the findings of medium severity too
HighImpactOrMedium(finding) == finding.severity \in {"critical", "high", "medium"}

HighImpact(finding) == finding.severity \in {"critical", "high"}

\* .slice(0, n)
Slice(seq, n) == SubSeq(seq, 1, IF Len(seq) < n THEN Len(seq) ELSE n)

\* as SortByPriority, an issue going behind the later issues of its own priority
RECURSIVE SortByPriorityUnstable(_)
SortByPriorityUnstable(issues) ==
    IF Len(issues) <= 1 THEN issues
    ELSE LET rest == SortByPriorityUnstable(Tail(issues))
             head == Head(issues)
             before == SelectSeq(rest, LAMBDA i : i.priority <= head.priority)
             after == SelectSeq(rest, LAMBDA i : i.priority > head.priority)
         IN  before \o <<head>> \o after

\* Array.prototype.sort with (a, b) => a.priority - b.priority: stable
RECURSIVE SortByPriority(_)
SortByPriority(issues) ==
    IF Len(issues) <= 1 THEN issues
    ELSE LET rest == SortByPriority(Tail(issues))
             head == Head(issues)
             before == SelectSeq(rest, LAMBDA i : i.priority < head.priority)
             after == SelectSeq(rest, LAMBDA i : i.priority >= head.priority)
         IN  before \o <<head>> \o after

identifyHighImpactIssues(analysis) ==
    LET aiAnalysis == IF IsSet(analysis.ai_analysis)
                      THEN Val(analysis.ai_analysis)
                      ELSE [security |-> <<>>, bugs |-> <<>>]
        security == SelectSeq(aiAnalysis.security, HighImpact)
        bugs == Slice(SelectSeq(aiAnalysis.bugs, HighImpact), 5)
        securityIssues ==
            [i \in 1..Len(security) |->
                [id |-> <<"security", i - 1>>,
                 type |-> "SECURITY", severity |-> security[i].severity,
                 file |-> security[i].file,
                 priority |-> IF security[i].severity = "critical" THEN 1 ELSE 2]]
        bugIssues ==
            [i \in 1..Len(bugs) |->
                [id |-> <<"bug", Len(security) + i - 1>>,
                 type |-> "BUG", severity |-> bugs[i].severity, file |-> bugs[i].file,
                 priority |-> IF bugs[i].severity = "critical" THEN 1 ELSE 3]]
    IN  SortByPriority(securityIssues \o bugIssues)

\* the file paths the agent's stdout names (File:, filepath:, --- a/)
FixOutputs == {<<>>, <<"src/app.js">>}

\* Array.from(new Set(...)): every element once, in the order of its first insertion
RECURSIVE InsertionOrder(_)
InsertionOrder(seq) ==
    IF Len(seq) = 0 THEN <<>>
    ELSE LET front == InsertionOrder(SubSeq(seq, 1, Len(seq) - 1))
             last == seq[Len(seq)]
         IN  IF \E i \in 1..Len(front) : front[i] = last THEN front ELSE Append(front, last)

\* as parseClineCodeOutput, succeeding also with no file
parseClineCodeOutputNeverFails(outputFiles, issues) ==
    [success |-> TRUE, error |-> "",
     filesModified |-> IF Len(outputFiles) > 0 THEN outputFiles ELSE <<>>]
\* parseClineCodeOutput: the files named in the output, else the files of the issues
parseClineCodeOutput(outputFiles, issues) ==
    LET issueFiles == SelectSeq([i \in 1..Len(issues) |-> issues[i].file], IsSet)
        filesModified ==
            IF Len(outputFiles) > 0 THEN InsertionOrder(outputFiles)
            ELSE InsertionOrder([i \in 1..Len(issueFiles) |-> Val(issueFiles[i])])
    IN  IF Len(filesModified) = 0
        THEN [success |-> FALSE, error |-> "No files identified", filesModified |-> <<>>]
        ELSE [success |-> TRUE, error |-> "", filesModified |-> filesModified]

\* generateHighImpactFixes never rejects: {success: false, error} instead
generateHighImpactFixes(task, outputFiles, issues) ==
    LET fixResult == parseClineCodeOutput(outputFiles, issues)
    IN  IF ~task.ok
        THEN [success |-> FALSE, error |-> task.error, filesModified |-> <<>>]
        ELSE IF ~fixResult.success
        THEN [success |-> FALSE, error |-> "Failed to parse Cline output",
              filesModified |-> <<>>]
        ELSE fixResult

-----------------------------------------------------------------------------
(* The rows the autonomous-fix workflow writes                             *)

\* autonomousHighImpactFix's insert
InitializingRow(analysisId) ==
    NewRow(FixJobColumns,
           [analysis_id |-> Some(analysisId), repo_name |-> Some("repo_name"),
            repo_owner |-> Some("repo_owner"), status |-> "initializing",
            progress |-> 0, message |-> "Identifying high-impact issues...",
            created_at |-> Some("now")])

\* updateFixJobProgress(jobId, status, progress, message)
updateFixJobProgress(status, progress, message) ==
    [status |-> status, progress |-> progress, message |-> message,
     updated_at |-> Some("now")]

FixAnalyzingWrite == updateFixJobProgress("analyzing", 10, "Analyzing issues...")
\* as FixCloningWrite, with another progress
FixCloningWriteOtherProgress == updateFixJobProgress("cloning", 25, "Cloning repository...")
FixCloningWrite == updateFixJobProgress("cloning", 20, "Cloning repository...")
FixFixingWrite == updateFixJobProgress("fixing", 40, "Generating fixes...")
FixCommittingWrite == updateFixJobProgress("committing", 60, "Committing changes...")
FixPushingWrite == updateFixJobProgress("pushing", 75, "Pushing changes...")
FixCreatingPrWrite == updateFixJobProgress("creating_pr", 90, "Creating PR...")

\* as NoIssuesWrite, without the progress column
NoIssuesWriteNoProgress ==
    [status |-> "completed",
     message |-> "No high-impact issues detected", completed_at |-> Some("now")]
NoIssuesWrite ==
    [status |-> "completed", progress |-> 100,
     message |-> "No high-impact issues detected", completed_at |-> Some("now")]

IssuesWrite(issues) == [high_impact_issues |-> Some(issues)]

FixCompletedWrite(fixResult, pr) ==
    [status |-> "completed", progress |-> 100, message |-> "PR created successfully",
     fixes_applied |-> Some(fixResult), files_modified |-> Some(fixResult.filesModified),
     pr_url |-> Some(pr.html_url), pr_number |-> Some(pr.number),
     completed_at |-> Some("now")]

\* the update of runAutonomousHighImpactFix's catch
FixFailedWrite(message) ==
    [status |-> "failed", error |-> Some(message), updated_at |-> Some("now")]

-----------------------------------------------------------------------------
(* autonomousHighImpactFix and runAutonomousHighImpactFix                  *)

\* the request arrives: 400 when analysisId or accessToken is missing, else the select is issued
AutonomousHighImpactFix(j) ==
    /\ NextFixJobId(j)
    /\ \E valid \in BOOLEAN, a \in AnalysisIds, accessToken \in Tokens :
         af' = [af EXCEPT ![j] =
                  IF valid
                  THEN [@ EXCEPT !.pc = "select", !.analysisId = a,
                                 !.accessToken = accessToken]
                  ELSE [@ EXCEPT !.pc = "rejected", !.response = Some(400)]]
    /\ UNCHANGED <<analyses, fixJobs, pa, fw, dirs, storeErrors, call>>

\* as AutonomousHighImpactFixSelect, without the check of the analysis's status
AutonomousHighImpactFixSelectAnyStatus(j) ==
    LET a == af[j].analysisId
    IN  /\ af[j].pc = "select"
        /\ af' = [af EXCEPT ![j] =
                    IF a \notin DOMAIN analyses
                    THEN [@ EXCEPT !.pc = "rejected", !.response = Some(404)]
                    ELSE [@ EXCEPT !.pc = "insert", !.analysis = Some(analyses[a])]]
        /\ UNCHANGED <<analyses, fixJobs, pa, fw, dirs, storeErrors, call>>
\* the select resolves: 404, 400, or the insert of the fix job is issued
AutonomousHighImpactFixSelect(j) ==
    LET a == af[j].analysisId
    IN  /\ af[j].pc = "select"
        /\ af' = [af EXCEPT ![j] =
                    IF a \notin DOMAIN analyses
                    THEN [@ EXCEPT !.pc = "rejected", !.response = Some(404)]
                    ELSE IF analyses[a].status # "completed"
                    THEN [@ EXCEPT !.pc = "rejected", !.response = Some(400)]
                    ELSE [@ EXCEPT !.pc = "insert", !.analysis = Some(analyses[a])]]
        /\ UNCHANGED <<analyses, fixJobs, pa, fw, dirs, storeErrors, call>>

\* the insert resolves: the response is sent and the workflow runs up to its first update
AutonomousHighImpactFixInsert(j) ==
    /\ af[j].pc = "insert"
    /\ \E o \in StoreOutcomes :
         /\ storeErrors' = StoreErrorsAfter(o)
         /\ fixJobs' = Insert(fixJobs, j, InitializingRow(af[j].analysisId), o)
    /\ af' = [af EXCEPT ![j].pc = "w_analyzing", ![j].response = Some(200)]
    /\ UNCHANGED <<analyses, pa, fw, dirs, call>>

\* control reaches runAutonomousHighImpactFix's catch with the error thrown
AFCatch(task, message) == [task EXCEPT !.pc = "w_failed", !.error = Some(message)]

\* "analyzing" is stored, the issues are ranked, and the next update is issued
AFWriteAnalyzing(j) ==
    /\ af[j].pc = "w_analyzing"
    /\ \E o \in StoreOutcomes :
         /\ storeErrors' = StoreErrorsAfter(o)
         /\ fixJobs' = Update(fixJobs, j, FixAnalyzingWrite, o)
    /\ LET highImpactIssues == identifyHighImpactIssues(Val(af[j].analysis))
       IN  af' = [af EXCEPT ![j].issues = highImpactIssues,
                            ![j].pc = IF Len(highImpactIssues) = 0
                                      THEN "w_no_issues" ELSE "w_issues"]
    /\ UNCHANGED <<analyses, pa, fw, dirs, call>>

\* no high-impact issue: the job is completed and the workflow returns
AFWriteNoIssues(j) ==
    /\ af[j].pc = "w_no_issues"
    /\ \E o \in StoreOutcomes :
         /\ storeErrors' = StoreErrorsAfter(o)
         /\ fixJobs' = Update(fixJobs, j, NoIssuesWrite, o)
    /\ af' = [af EXCEPT ![j].pc = "done"]
    /\ UNCHANGED <<analyses, pa, fw, dirs, call>>

AFWriteIssues(j) ==
    /\ af[j].pc = "w_issues"
    /\ \E o \in StoreOutcomes :
         /\ storeErrors' = StoreErrorsAfter(o)
         /\ fixJobs' = Update(fixJobs, j, IssuesWrite(af[j].issues), o)
    /\ af' = [af EXCEPT ![j].pc = "w_cloning"]
    /\ UNCHANGED <<analyses, pa, fw, dirs, call>>

\* "cloning" is stored; tempDir is set and fs.mkdir is called
AFWriteCloning(j) ==
    /\ af[j].pc = "w_cloning"
    /\ \E o \in StoreOutcomes :
         /\ storeErrors' = StoreErrorsAfter(o)
         /\ fixJobs' = Update(fixJobs, j, FixCloningWrite, o)
    /\ af' = [af EXCEPT ![j].pc = "mkdir", ![j].tempDir = Some(AutofixDir(j))]
    /\ UNCHANGED <<analyses, pa, fw, dirs, call>>

AFMkdir(j) ==
    /\ af[j].pc = "mkdir"
    /\ \/ /\ dirs' = dirs \cup {Val(af[j].tempDir)}
          /\ af' = [af EXCEPT ![j].pc = "clone", ![j].created = TRUE]
       \/ /\ \E e \in MkdirErrors : af' = [af EXCEPT ![j] = AFCatch(@, e)]
          /\ UNCHANGED dirs
    /\ UNCHANGED <<analyses, fixJobs, pa, fw, storeErrors, call>>

AFClone(j) ==
    /\ af[j].pc = "clone"
    /\ \/ af' = [af EXCEPT ![j].pc = "w_fixing"]
       \/ \E e \in CloneErrors : af' = [af EXCEPT ![j] = AFCatch(@, e)]
    /\ UNCHANGED <<analyses, fixJobs, pa, fw, dirs, storeErrors, call>>

\* the progress updates that are followed by an external call, and that call
AFAfterWrite ==
    [w_fixing |-> "generate", w_committing |-> "config_name", w_pushing |-> "push",
     w_creating_pr |-> "pr"]

\* as AFProgressWrite, every step written as the fixing step
AFProgressWriteAlwaysFixing(pc) == FixFixingWrite
AFProgressWrite(pc) ==
    CASE pc = "w_fixing" -> FixFixingWrite
      [] pc = "w_committing" -> FixCommittingWrite
      [] pc = "w_pushing" -> FixPushingWrite
      [] OTHER -> FixCreatingPrWrite

AFWriteProgress(j) ==
    /\ af[j].pc \in DOMAIN AFAfterWrite
    /\ \E o \in StoreOutcomes :
         /\ storeErrors' = StoreErrorsAfter(o)
         /\ fixJobs' = Update(fixJobs, j, AFProgressWrite(af[j].pc), o)
    /\ af' = [af EXCEPT ![j].pc = AFAfterWrite[af[j].pc]]
    /\ UNCHANGED <<analyses, pa, fw, dirs, call>>

\* generateHighImpactFixes resolves; an unsuccessful result is thrown
AFGenerate(j) ==
    /\ af[j].pc = "generate"
    /\ \E task \in RunClineTaskResults, outputFiles \in FixOutputs :
         LET fixResult == generateHighImpactFixes(task, outputFiles, af[j].issues)
         IN  af' = [af EXCEPT ![j] =
                      IF fixResult.success
                      THEN [@ EXCEPT !.pc = "w_committing", !.fixResult = Some(fixResult)]
                      ELSE AFCatch(@, "Fix generation failed: " \o fixResult.error)]
    /\ UNCHANGED <<analyses, fixJobs, pa, fw, dirs, storeErrors, call>>

\* as AFAfterCommand, going from git add to the push
AFAfterCommandWithoutCommit ==
    [config_name |-> "config_email", config_email |-> "checkout", checkout |-> "add",
     add |-> "w_pushing", commit |-> "w_pushing"]
\* the git commands of runAutonomousHighImpactFix in order, and what follows each
AFAfterCommand ==
    [config_name |-> "config_email", config_email |-> "checkout", checkout |-> "add",
     add |-> "commit", commit |-> "w_pushing"]

AFRunCommand(j) ==
    /\ af[j].pc \in DOMAIN AFAfterCommand
    /\ \/ af' = [af EXCEPT ![j].pc = AFAfterCommand[af[j].pc]]
       \/ \E e \in RunCommandErrors : af' = [af EXCEPT ![j] = AFCatch(@, e)]
       \/ \E e \in RunCommandSpawnErrors : af' = [af EXCEPT ![j] = Crash(@, e)]
    /\ UNCHANGED <<analyses, fixJobs, pa, fw, dirs, storeErrors, call>>

AFPush(j) ==
    /\ af[j].pc = "push"
    /\ \/ af' = [af EXCEPT ![j].pc = "w_creating_pr"]
       \/ \E e \in PushErrors(af[j].accessToken) : af' = [af EXCEPT ![j] = AFCatch(@, e)]
    /\ UNCHANGED <<analyses, fixJobs, pa, fw, dirs, storeErrors, call>>

AFCreatePR(j) ==
    /\ af[j].pc = "pr"
    /\ \/ af' = [af EXCEPT ![j].pc = "w_completed"]
       \/ \E e \in PullRequestErrors : af' = [af EXCEPT ![j] = AFCatch(@, e)]
    /\ UNCHANGED <<analyses, fixJobs, pa, fw, dirs, storeErrors, call>>

AFWriteCompleted(j) ==
    /\ af[j].pc = "w_completed"
    /\ \E o \in StoreOutcomes, pr \in PullRequests :
         /\ storeErrors' = StoreErrorsAfter(o)
         /\ fixJobs' = Update(fixJobs, j, FixCompletedWrite(Val(af[j].fixResult), pr), o)
    /\ af' = [af EXCEPT ![j].pc = "cleanup"]
    /\ UNCHANGED <<analyses, pa, fw, dirs, call>>

AFCleanup(j) ==
    /\ af[j].pc = "cleanup"
    /\ dirs' \in cleanupTempDir(Val(af[j].tempDir))
    /\ af' = [af EXCEPT ![j].pc = "done", ![j].cleaned = TRUE]
    /\ UNCHANGED <<analyses, fixJobs, pa, fw, storeErrors, call>>

\* the catch: the failing update, then cleanupTempDir when tempDir is set
AFWriteFailed(j) ==
    /\ af[j].pc = "w_failed"
    /\ \E o \in StoreOutcomes :
         /\ storeErrors' = StoreErrorsAfter(o)
         /\ fixJobs' = Update(fixJobs, j, FixFailedWrite(Val(af[j].error)), o)
    /\ af' = [af EXCEPT ![j].pc = IF IsSet(af[j].tempDir) THEN "cleanup" ELSE "done"]
    /\ UNCHANGED <<analyses, pa, fw, dirs, call>>

-----------------------------------------------------------------------------
(* Specifications                                                          *)

InitTasks ==
    /\ analyses = << >>
    /\ fixJobs = << >>
    /\ pa = [a \in AnalysisIds |-> IdleAnalysis]
    /\ fw = [k \in FixWorkflowIds |-> IdleFixWorkflow]
    /\ af = [j \in FixJobIds |-> IdleAutofix]
    /\ dirs = {}

\* no function is called on its own
NoCall == [fn |-> "none"]

\* every insert and update is applied
Init == InitTasks /\ storeErrors = 0 /\ call = NoCall

\* up to MaxStoreErrors inserts or updates are answered with an error
InitStoreError == InitTasks /\ storeErrors = MaxStoreErrors /\ call = NoCall

Next ==
    \/ \E a \in AnalysisIds :
          \/ AnalyzeRepository(a) \/ AnalyzeRepositoryInsert(a) \/ PAMkdir(a)
          \/ PAWriteCloning(a) \/ PAClone(a) \/ PAWriteAnalyzing(a) \/ PAStructure(a)
          \/ PAWriteAiAnalyzing(a) \/ PARunAIAnalysis(a) \/ PAWriteScoring(a)
          \/ PAWriteCompleted(a) \/ PAFixReturned(a) \/ PACleanup(a) \/ PAWriteFailed(a)
    \/ \E t \in TriggerIds : TriggerAIFix(t) \/ TriggerAIFixSelect(t)
    \/ \E k \in FixWorkflowIds :
          \/ FWMkdir(k) \/ FWClone(k) \/ FWRunCommand(k) \/ FWRunAIFix(k) \/ FWPush(k)
          \/ FWCreatePR(k) \/ FWWriteResult(k) \/ FWCleanup(k) \/ FWWriteError(k)
    \/ \E j \in FixJobIds :
          \/ AutonomousHighImpactFix(j) \/ AutonomousHighImpactFixSelect(j)
          \/ AutonomousHighImpactFixInsert(j) \/ AFWriteAnalyzing(j)
          \/ AFWriteNoIssues(j) \/ AFWriteIssues(j) \/ AFWriteCloning(j) \/ AFMkdir(j)
          \/ AFClone(j) \/ AFWriteProgress(j) \/ AFGenerate(j) \/ AFRunCommand(j)
          \/ AFPush(j) \/ AFCreatePR(j) \/ AFWriteCompleted(j) \/ AFCleanup(j)
          \/ AFWriteFailed(j)

Spec == Init /\ [][Next]_vars

SpecStoreError == InitStoreError /\ [][Next]_vars

-----------------------------------------------------------------------------
(* extractJSON and identifyHighImpactIssues called on their own            *)

MaxText == 6
MaxSecurity == 2
MaxBugs == 6

\* the texts extractJSON is called with
ScanTokens ==
    {"{", "}", "x", "architecture", "codeQuality", "code_quality", "recommendations", "foo"}
Texts == [1..MaxText -> ScanTokens]

InitExtractJSON ==
    /\ InitTasks
    /\ storeErrors = 0
    /\ call \in {[fn |-> "extractJSON", pc |-> "called", arg |-> text, result |-> Null] :
                    text \in Texts}

\* the call returns or throws
ExtractJSON ==
    /\ call.fn = "extractJSON"
    /\ call.pc = "called"
    /\ call' = [call EXCEPT !.pc = "returned", !.result = Some(extractJSON(call.arg))]
    /\ UNCHANGED <<analyses, fixJobs, pa, fw, af, dirs, storeErrors>>

SpecExtractJSON == InitExtractJSON /\ [][ExtractJSON]_vars

\* the analysis rows identifyHighImpactIssues is called with
Severities == {"critical", "high", "medium", "low"}
SeveritySeqs(n) == UNION {[1..k -> Severities] : k \in 0..n}
Findings(kind, severities) ==
    [i \in 1..Len(severities) |-> [severity |-> severities[i], file |-> Some(<<kind, i>>)]]
AnalysisResults ==
    {[ai_analysis |-> Null]}
    \cup {[ai_analysis |-> Some([security |-> Findings("security", s),
                                 bugs |-> Findings("bugs", b)])] :
             s \in SeveritySeqs(MaxSecurity), b \in SeveritySeqs(MaxBugs)}

InitIdentify ==
    /\ InitTasks
    /\ storeErrors = 0
    /\ call \in {[fn |-> "identifyHighImpactIssues", pc |-> "called", arg |-> analysis,
                   result |-> Null] : analysis \in AnalysisResults}

IdentifyHighImpactIssues ==
    /\ call.fn = "identifyHighImpactIssues"
    /\ call.pc = "called"
    /\ call' = [call EXCEPT !.pc = "returned",
                            !.result = Some(identifyHighImpactIssues(call.arg))]
    /\ UNCHANGED <<analyses, fixJobs, pa, fw, af, dirs, storeErrors>>

SpecIdentify == InitIdentify /\ [][IdentifyHighImpactIssues]_vars

TypeOK ==
    /\ DOMAIN analyses \subseteq AnalysisIds
    /\ DOMAIN fixJobs \subseteq FixJobIds
    /\ \A a \in DOMAIN analyses : analyses[a].progress \in 0..100

-----------------------------------------------------------------------------
(* Properties                                                              *)

Terminal == {"completed", "failed"}

\* the rows of both tables, and the rows a step leaves in place
Rows == {analyses[a] : a \in DOMAIN analyses} \cup {fixJobs[j] : j \in DOMAIN fixJobs}

KeptAnalyses == {<<analyses[a], analyses'[a]>> : a \in DOMAIN analyses \cap DOMAIN analyses'}
KeptFixJobs == {<<fixJobs[j], fixJobs'[j]>> : j \in DOMAIN fixJobs \cap DOMAIN fixJobs'}

StatusProgress(row) == <<row.status, row.progress>>

\* the writes of an analysis in which no step fails
AnalysisSequence ==
    << <<"pending", 0>>, <<"cloning", 15>>, <<"analyzing", 30>>, <<"ai_analyzing", 75>>,
       <<"analyzing", 90>>, <<"completed", 100>> >>

\* performAnalysis is over and none of its steps raised
RanToEnd(a) == pa[a].pc = "done" /\ ~pa[a].raised

\* C1: an analysis row is inserted as pending/0; each later change of its status or
\* progress is the next pair of pending/0, cloning/15, analyzing/30, ai_analyzing/75,
\* analyzing/90, completed/100, or a change to failed from a status that is not
\* terminal; and a performAnalysis in which no step raised ends at completed/100.
C1_AnalysisStatusSequence ==
    /\ [][/\ \A a \in DOMAIN analyses' \ DOMAIN analyses :
                StatusProgress(analyses'[a]) = AnalysisSequence[1]
          /\ \A kept \in KeptAnalyses :
                \/ StatusProgress(kept[2]) = StatusProgress(kept[1])
                \/ \E i \in 1..(Len(AnalysisSequence) - 1) :
                      /\ StatusProgress(kept[1]) = AnalysisSequence[i]
                      /\ StatusProgress(kept[2]) = AnalysisSequence[i + 1]
                \/ /\ kept[1].status \notin Terminal
                   /\ kept[2].status = "failed"]_vars
    /\ [](\A a \in AnalysisIds :
            RanToEnd(a) => StatusProgress(analyses[a]) = <<"completed", 100>>)

C1_Witness ==
    \E a \in DOMAIN analyses :
        /\ RanToEnd(a)
        /\ StatusProgress(analyses[a]) = <<"completed", 100>>

\* C2: no write to an analysis row or a fix-job row lowers its progress while the
\* status it leaves is not failed.
C2_ProgressNeverDecreases ==
    [][\A kept \in KeptAnalyses \cup KeptFixJobs :
          kept[2].status # "failed" => kept[2].progress >= kept[1].progress]_vars

C2_Witness ==
    /\ \E a \in DOMAIN analyses : analyses[a].progress = 90
    /\ storeErrors = 0

\* C3: in every row of either table, progress is 100 exactly when status is completed.
C3_ProgressHundredIffCompleted ==
    \A row \in Rows : row.progress = 100 <=> row.status = "completed"

C3_Witness ==
    /\ \E a \in DOMAIN analyses : analyses[a].status = "completed"
    /\ \E j \in DOMAIN fixJobs : fixJobs[j].status = "failed" /\ fixJobs[j].progress = 90

\* C4: once a row's status is completed or failed, no write changes its status or
\* its progress, and a task that is over takes no further step.
C4_TerminalIsFinal ==
    [][/\ \A kept \in KeptAnalyses \cup KeptFixJobs :
             kept[1].status \in Terminal => StatusProgress(kept[2]) = StatusProgress(kept[1])
       /\ \A a \in AnalysisIds : pa[a].pc = "done" => pa'[a] = pa[a]
       /\ \A j \in FixJobIds : af[j].pc = "done" => af'[j] = af[j]]_vars

\* a follow-up fix failed and wrote its error to the completed analysis
C4_Witness ==
    \E a \in DOMAIN analyses :
        /\ analyses[a].status = "completed"
        /\ IsSet(analyses[a].ai_fix_result)
        /\ ~Val(analyses[a].ai_fix_result).success
        /\ pa[a].pc = "done"

ResultColumns == {"structure", "code_quality", "ai_analysis"}

\* what updateProgress and the completing update store together
AnalysisProgressGroups ==
    {<<"pending", 0, "Analysis queued...">>, <<"cloning", 15, "Cloning repository...">>,
     <<"analyzing", 30, "Analyzing structure...">>,
     <<"ai_analyzing", 75, "Running AI analysis...">>,
     <<"analyzing", 90, "Calculating score...">>, <<"completed", 100, "Analysis complete">>}

\* C5: an analysis row has status completed exactly when its result columns
\* (structure, code_quality, ai_analysis) are set, all three or none; and the
\* status, progress and message of a row that is not failed are those of one update.
C5_CompletedIffResult ==
    \A a \in DOMAIN analyses :
        /\ \A c \in ResultColumns : IsSet(analyses[a][c]) <=> analyses[a].status = "completed"
        /\ analyses[a].status # "failed" =>
              <<analyses[a].status, analyses[a].progress, analyses[a].message>>
                  \in AnalysisProgressGroups

C5_Witness ==
    \E a \in DOMAIN analyses :
        /\ analyses[a].status = "completed"
        /\ \A c \in ResultColumns : IsSet(analyses[a][c])
        /\ storeErrors = 0

\* C6: in every row of either table, the error column is set exactly when the
\* status is failed.
C6_ErrorIffFailed ==
    \A row \in Rows : IsSet(row.error) <=> row.status = "failed"

C6_Witness ==
    \E a \in DOMAIN analyses :
        /\ analyses[a].status = "failed"
        /\ analyses[a].progress = 15
        /\ IsSet(analyses[a].error)

\* C7: when a step of performAnalysis raised, the job's row ends with status failed.
C7_RaisedEndsFailed ==
    \A a \in DOMAIN analyses :
        pa[a].pc = "done" /\ pa[a].raised => analyses[a].status = "failed"

\* the agent invocation of this analysis failed or timed out
AgentFailed(a) ==
    /\ IsSet(pa[a].aiAnalysis)
    /\ Val(pa[a].aiAnalysis).error \in {Some("Cline execution failed"), Some("Cline timeout")}

\* the clone of this analysis failed
CloneFailed(a) == IsSet(pa[a].error) /\ Val(pa[a].error) \in CloneErrors

\* C8: an analysis whose clone or agent invocation failed ends with status failed
\* and the error column set, and the response to its creator stays the one sent at
\* the start.
C8_ToolErrorFailsJob ==
    \A a \in DOMAIN analyses :
        pa[a].pc = "done" /\ (CloneFailed(a) \/ AgentFailed(a)) =>
            /\ analyses[a].status = "failed"
            /\ IsSet(analyses[a].error)
            /\ pa[a].response = Some(200)

\* C9: a performAnalysis or runAutonomousHighImpactFix that reached its catch, whether
\* or not the update of the catch was applied, ends with the row at status failed and
\* with cleanupTempDir called on the workspace it created.
C9_CatchEndsFailedAndReleased ==
    /\ \A a \in DOMAIN analyses :
          pa[a].pc = "done" /\ IsSet(pa[a].error) =>
              analyses[a].status = "failed" /\ (pa[a].created => pa[a].cleaned)
    /\ \A j \in DOMAIN fixJobs :
          af[j].pc = "done" /\ IsSet(af[j].error) =>
              fixJobs[j].status = "failed" /\ (af[j].created => af[j].cleaned)

\* C10: when a workflow is over, cleanupTempDir has been called on every workspace
\* directory it created, by itself or by the follow-up fix it awaited.
C10_WorkspaceReleased ==
    /\ \A a \in AnalysisIds : pa[a].pc = "done" /\ pa[a].created => pa[a].cleaned
    /\ \A k \in FixWorkflowIds : fw[k].pc = "done" /\ fw[k].created => fw[k].cleaned
    /\ \A j \in FixJobIds : af[j].pc = "done" /\ af[j].created => af[j].cleaned

\* the inline follow-up fix of an analysis
InlineFix(a) == fw[<<"inline", a>>]

\* C11: the inline runAIFixWorkflow of an analysis is started only by the step that issues
\* the completing update, with enableAIFix and accessToken given; it takes the workspace
\* of the analysis, never makes or clones a directory of its own, and that workspace
\* exists and has not been handed to cleanupTempDir while the fix runs; a performAnalysis
\* that ends in any other way has called cleanupTempDir on the workspace it created and
\* has started no fix.
C11_FollowUpOnOwnWorkspace ==
    /\ [][\A a \in AnalysisIds :
            InlineFix(a).pc = "idle" /\ InlineFix(a)'.pc # "idle" =>
                /\ pa[a].pc = "w_completed"
                /\ FollowUpRequested(pa[a])
                /\ pa'[a].pc = "await_fix"
                /\ InlineFix(a)'.tempDir = pa[a].tempDir
                /\ InlineFix(a)'.pc \notin {"mkdir", "clone"}]_vars
    /\ [](\A a \in AnalysisIds :
            /\ InlineFix(a).pc \notin {"mkdir", "clone"}
            /\ ~InlineFix(a).created
            /\ InlineFix(a).pc \notin {"idle", "done", "crashed"} =>
                  /\ ~pa[a].cleaned
                  /\ Val(pa[a].tempDir) \in dirs
            /\ pa[a].pc = "done" /\ (pa[a].raised \/ ~FollowUpRequested(pa[a])) =>
                  /\ InlineFix(a).pc = "idle"
                  /\ pa[a].created => pa[a].cleaned)

\* the follow-up fix ran to its end on the workspace of the analysis
C11_Witness ==
    \E a \in DOMAIN analyses :
        /\ pa[a].pc = "done"
        /\ InlineFix(a).pc = "done"
        /\ InlineFix(a).tempDir = Some(AnalysisDir(a))
        /\ IsSet(analyses[a].ai_fix_result)
        /\ Val(analyses[a].ai_fix_result).success

\* the steps of analyzeRepository before its response: the request has not arrived, or the
\* insert has been issued and has not resolved
BeforeResponse == {"idle", "insert"}

\* C12: analyzeRepository sends its response in the step in which the insert resolves, the
\* row being there with status pending and progress 0; nothing of performAnalysis has run
\* before that step; a request gets a response once and the response never changes
\* afterwards, whatever the background workflow does.
C12_RespondsOnceBeforeWorkflow ==
    /\ [][\A a \in AnalysisIds :
            /\ pa'[a].response # pa[a].response => pa[a].pc \in BeforeResponse
            /\ pa[a].response = Null /\ pa'[a].response = Some(200) =>
                  /\ pa[a].pc = "insert"
                  /\ a \in DOMAIN analyses'
                  /\ StatusProgress(analyses'[a]) = <<"pending", 0>>]_vars
    /\ [](\A a \in AnalysisIds :
            IF pa[a].pc \in BeforeResponse
            THEN /\ pa[a].response = Null
                 /\ ~pa[a].created /\ ~pa[a].raised /\ pa[a].tempDir = Null
                 /\ InlineFix(a).pc = "idle"
            ELSE pa[a].response \in {Some(200), Some(400)})

\* the workflow failed after the response, and the response is still the one of the start
C12_Witness ==
    \E a \in DOMAIN analyses :
        /\ pa[a].pc = "done"
        /\ pa[a].raised
        /\ analyses[a].status = "failed"
        /\ pa[a].response = Some(200)

\* a triggerAIFix request and the runAIFixWorkflow it starts
TriggeredFix(t) == fw[<<"trigger", t>>]

\* the analysis a fix request names is missing or is not completed
NotFixable(a) == a \notin DOMAIN analyses \/ analyses[a].status # "completed"

\* C13: a request that fails validation is answered with a 400 or a 404 in the step that
\* finds the fault; it has inserted no row and made no workspace, its task never takes
\* another step, and a fix request whose analysis is missing or not completed when the
\* select resolves is always rejected.
C13_RejectedStartsNothing ==
    /\ [](\A a \in AnalysisIds :
            pa[a].pc = "rejected" =>
                /\ pa[a].response = Some(400)
                /\ a \notin DOMAIN analyses
                /\ ~pa[a].created /\ pa[a].tempDir = Null /\ AnalysisDir(a) \notin dirs
                /\ InlineFix(a).pc = "idle")
    /\ [](\A t \in TriggerIds :
            TriggeredFix(t).pc = "rejected" =>
                /\ TriggeredFix(t).response \in {Some(400), Some(404)}
                /\ ~TriggeredFix(t).created /\ TriggeredFix(t).tempDir = Null)
    /\ [](\A j \in FixJobIds :
            af[j].pc = "rejected" =>
                /\ af[j].response \in {Some(400), Some(404)}
                /\ j \notin DOMAIN fixJobs
                /\ ~af[j].created /\ af[j].tempDir = Null /\ AutofixDir(j) \notin dirs)
    /\ [][/\ \A a \in AnalysisIds : pa[a].pc = "rejected" => pa'[a] = pa[a]
          /\ \A t \in TriggerIds :
                /\ TriggeredFix(t).pc = "rejected" => TriggeredFix(t)' = TriggeredFix(t)
                /\ /\ TriggeredFix(t).pc = "select"
                   /\ TriggeredFix(t)' # TriggeredFix(t)
                   /\ NotFixable(TriggeredFix(t).analysisId)
                   => TriggeredFix(t)'.pc = "rejected"
          /\ \A j \in FixJobIds :
                /\ af[j].pc = "rejected" => af'[j] = af[j]
                /\ af[j].pc = "select" /\ af'[j] # af[j] /\ NotFixable(af[j].analysisId)
                   => af'[j].pc = "rejected"]_vars

\* one fix request named an analysis that was not there, another one that was not completed
C13_Witness ==
    /\ \E t \in TriggerIds :
          TriggeredFix(t).pc = "rejected" /\ TriggeredFix(t).response = Some(404)
    /\ \E j \in FixJobIds :
          /\ af[j].pc = "rejected"
          /\ af[j].response = Some(400)
          /\ af[j].analysisId \in DOMAIN analyses
          /\ analyses[af[j].analysisId].status = "cloning"

\* the writes of a fix job with issues in which no step fails
FixSequence ==
    << <<"initializing", 0>>, <<"analyzing", 10>>, <<"cloning", 20>>, <<"fixing", 40>>,
       <<"committing", 60>>, <<"pushing", 75>>, <<"creating_pr", 90>>,
       <<"completed", 100>> >>

\* the analysis this fix job read has at least one high-impact issue
HasIssues(j) ==
    /\ IsSet(af[j].analysis)
    /\ Len(identifyHighImpactIssues(Val(af[j].analysis))) > 0

\* C14: a fix-job row is inserted as initializing/0; for a job whose analysis has a
\* high-impact issue each later change of status or progress is the next pair of
\* initializing/0, analyzing/10, cloning/20, fixing/40, committing/60, pushing/75,
\* creating_pr/90, completed/100, or a change to failed from a status that is not
\* terminal; and such a job in which no step failed ends at completed/100.
C14_FixStatusSequence ==
    /\ [][/\ \A j \in DOMAIN fixJobs' \ DOMAIN fixJobs :
                StatusProgress(fixJobs'[j]) = FixSequence[1]
          /\ \A j \in DOMAIN fixJobs \cap DOMAIN fixJobs' :
                HasIssues(j) =>
                    \/ StatusProgress(fixJobs'[j]) = StatusProgress(fixJobs[j])
                    \/ \E i \in 1..(Len(FixSequence) - 1) :
                          /\ StatusProgress(fixJobs[j]) = FixSequence[i]
                          /\ StatusProgress(fixJobs'[j]) = FixSequence[i + 1]
                    \/ /\ fixJobs[j].status \notin Terminal
                       /\ fixJobs'[j].status = "failed"]_vars
    /\ [](\A j \in FixJobIds :
            af[j].pc = "done" /\ HasIssues(j) /\ ~IsSet(af[j].error) =>
                StatusProgress(fixJobs[j]) = <<"completed", 100>>)

C14_Witness ==
    \E j \in DOMAIN fixJobs :
        /\ af[j].pc = "done"
        /\ HasIssues(j)
        /\ StatusProgress(fixJobs[j]) = <<"completed", 100>>
        /\ IsSet(fixJobs[j].pr_url)

\* the analysis this fix job read has no high-impact issue
NoIssues(j) ==
    /\ IsSet(af[j].analysis)
    /\ identifyHighImpactIssues(Val(af[j].analysis)) = <<>>

\* where runAutonomousHighImpactFix is before fs.mkdir and any clone, agent, git, push or
\* pull-request call
BeforeCollaborators == {"insert", "w_analyzing", "w_no_issues", "done"}

\* C15: a fix job whose analysis has no high-impact issue is never at a step that makes
\* the workspace or calls the clone, the agent, git, the push or the pull request; it
\* raises nothing, and when it is over its row is completed with progress 100 and the
\* no-issues message, with no workspace made and no pull request stored.
C15_NoIssuesCompletesAtOnce ==
    \A j \in FixJobIds :
        NoIssues(j) =>
            /\ af[j].pc \in BeforeCollaborators
            /\ ~af[j].created /\ af[j].tempDir = Null /\ AutofixDir(j) \notin dirs
            /\ ~IsSet(af[j].error)
            /\ af[j].pc = "done" =>
                  /\ j \in DOMAIN fixJobs
                  /\ StatusProgress(fixJobs[j]) = <<"completed", 100>>
                  /\ fixJobs[j].message = "No high-impact issues detected"
                  /\ ~IsSet(fixJobs[j].pr_url)

C15_Witness ==
    \E j \in DOMAIN fixJobs :
        /\ NoIssues(j)
        /\ af[j].pc = "done"
        /\ fixJobs[j].status = "completed"
        /\ fixJobs[j].message = "No high-impact issues detected"

\* runAutonomousHighImpactFix is over: it returned, or the process ended under it
FixEnded(j) == af[j].pc \in {"done", "crashed"}

\* C16: a fix job one of whose steps failed ends with its row at status failed and the
\* error column set, and with cleanupTempDir called on the workspace if it made one.
C16_FailedStepEndsFailed ==
    \A j \in FixJobIds :
        FixEnded(j) /\ IsSet(af[j].error) =>
            /\ j \in DOMAIN fixJobs
            /\ fixJobs[j].status = "failed"
            /\ IsSet(fixJobs[j].error)
            /\ af[j].created => af[j].cleaned

\* identifyHighImpactIssues, called on its own, has returned
IdentifyReturned == call.fn = "identifyHighImpactIssues" /\ call.pc = "returned"

\* the findings of the analysis result it was called with
ArgSecurity == IF IsSet(call.arg.ai_analysis) THEN Val(call.arg.ai_analysis).security ELSE <<>>
ArgBugs == IF IsSet(call.arg.ai_analysis) THEN Val(call.arg.ai_analysis).bugs ELSE <<>>

CriticalOrHigh == {"critical", "high"}

\* the findings that are to be returned: every critical or high security finding, and the
\* critical or high bug findings that have fewer than five such bugs before them
KeptSecurity == {i \in 1..Len(ArgSecurity) : ArgSecurity[i].severity \in CriticalOrHigh}
KeptBugs ==
    {i \in 1..Len(ArgBugs) :
        /\ ArgBugs[i].severity \in CriticalOrHigh
        /\ Cardinality({h \in 1..(i - 1) : ArgBugs[h].severity \in CriticalOrHigh}) < 5}

\* C17: identifyHighImpactIssues returns one issue for every critical or high security
\* finding and one for each of the first five critical or high bug findings, and no other
\* issue; each has the severity and file of its finding, and priority 1 when critical,
\* 2 when a high security finding, 3 when a high bug.
C17_HighImpactSelection ==
    IdentifyReturned =>
        LET issues == Val(call.result)
        IN  /\ Len(issues) = Cardinality(KeptSecurity) + Cardinality(KeptBugs)
            /\ \A i \in KeptSecurity : \E k \in 1..Len(issues) :
                  /\ issues[k].type = "SECURITY"
                  /\ issues[k].file = ArgSecurity[i].file
                  /\ issues[k].severity = ArgSecurity[i].severity
            /\ \A i \in KeptBugs : \E k \in 1..Len(issues) :
                  /\ issues[k].type = "BUG"
                  /\ issues[k].file = ArgBugs[i].file
                  /\ issues[k].severity = ArgBugs[i].severity
            /\ \A k \in 1..Len(issues) :
                  /\ issues[k].severity \in CriticalOrHigh
                  /\ issues[k].priority =
                        IF issues[k].severity = "critical" THEN 1
                        ELSE IF issues[k].type = "SECURITY" THEN 2 ELSE 3

\* six critical or high bugs, of which five are returned, and a medium finding left out
C17_Witness ==
    /\ IdentifyReturned
    /\ Cardinality({i \in 1..Len(ArgBugs) : ArgBugs[i].severity \in CriticalOrHigh}) = 6
    /\ Cardinality(KeptBugs) = 5
    /\ \E i \in 1..Len(ArgSecurity) : ArgSecurity[i].severity = "medium"
    /\ Cardinality(KeptSecurity) = 1
    /\ Len(Val(call.result)) = 6

\* where the finding of an issue stands in the order of encounter: the security findings
\* in their order, then the bug findings in theirs
Encounter(issue) ==
    IF issue.type = "SECURITY" THEN Val(issue.file)[2]
    ELSE Len(ArgSecurity) + Val(issue.file)[2]

SeveritiesOf(findings) == [i \in 1..Len(findings) |-> findings[i].severity]

\* C18: the list identifyHighImpactIssues returns is ascending in priority, and of two
\* issues of the same priority the one encountered first comes first; a critical security
\* finding with the bugs high, critical is returned as critical security, critical bug,
\* high bug.
C18_StableByPriority ==
    IdentifyReturned =>
        LET issues == Val(call.result)
        IN  /\ \A i, k \in 1..Len(issues) :
                  i < k =>
                      /\ issues[i].priority <= issues[k].priority
                      /\ issues[i].priority = issues[k].priority =>
                            Encounter(issues[i]) < Encounter(issues[k])
            /\ /\ SeveritiesOf(ArgSecurity) = <<"critical">>
               /\ SeveritiesOf(ArgBugs) = <<"high", "critical">>
               => [k \in 1..Len(issues) |-> <<issues[k].type, issues[k].severity>>]
                     = << <<"SECURITY", "critical">>, <<"BUG", "critical">>,
                          <<"BUG", "high">> >>

\* the example of the claim: the critical bug is returned before the high bug pushed before it
C18_Witness ==
    /\ IdentifyReturned
    /\ SeveritiesOf(ArgSecurity) = <<"critical">>
    /\ SeveritiesOf(ArgBugs) = <<"high", "critical">>
    /\ Val(call.result)[2].type = "BUG"
    /\ Val(call.result)[2].priority = 1
    /\ Val(call.result)[3].priority = 3

\* extractJSON, called on its own, has returned or thrown
ExtractReturned == call.fn = "extractJSON" /\ call.pc = "returned"

\* the top-level keys by which a candidate is taken for the agent's answer
ExpectedKeys == {"architecture", "codeQuality", "code_quality", "recommendations"}

\* the candidates of a text that parse and hold one of the expected keys, by position
Fitting(matches) ==
    {i \in 1..Len(matches) :
        /\ JSONParse(matches[i]).ok
        /\ JSONParse(matches[i]).value.keys \cap ExpectedKeys # {}}

\* C19: when a candidate collected from the text parses and has one of the top-level keys
\* architecture, codeQuality, code_quality, recommendations, extractJSON returns the last
\* such candidate.
C19_LastFittingCandidate ==
    ExtractReturned =>
        LET matches == allJsonMatches(call.arg)
            fitting == Fitting(matches)
            last == CHOOSE i \in fitting : \A k \in fitting : k <= i
        IN  fitting # {} =>
                /\ Val(call.result).ok
                /\ Val(call.result).json = Some(JSONParse(matches[last]).value)

\* the braces opened less the braces closed in text[i..k]
RECURSIVE BraceCount(_, _, _)
BraceCount(text, i, k) ==
    IF k < i THEN 0
    ELSE BraceCount(text, i, k - 1)
            + (IF text[k] = "{" THEN 1 ELSE IF text[k] = "}" THEN -1 ELSE 0)

\* text[i..j] runs from a "{" to the "}" at which its brace depth is first back at zero
BalancedAt(text, i, j) ==
    /\ text[i] = "{"
    /\ BraceCount(text, i, j) = 0
    /\ \A k \in i..(j - 1) : BraceCount(text, i, k) > 0

\* the text has a "{" from which the brace depth returns to zero
HasBalancedCandidate(text) ==
    \E i \in 1..Len(text) : \E j \in i..Len(text) : BalancedAt(text, i, j)

NoJsonFound == [ok |-> FALSE, error |-> "No JSON found", json |-> Null]

\* C20: extractJSON ends with the no-JSON-found error exactly when the text has no
\* balanced-brace candidate, and in every other case with an object or the error of
\* JSON.parse.
C20_NoJsonFoundIffNoCandidate ==
    ExtractReturned =>
        /\ Val(call.result) = NoJsonFound <=> ~HasBalancedCandidate(call.arg)
        /\ Val(call.result).ok <=> IsSet(Val(call.result).json)
        /\ Val(call.result).error \in {"", "No JSON found", "Unexpected token in JSON"}

-----------------------------------------------------------------------------
(* Extraction failures in the analysis workflow                            *)

\* the messages extractJSON throws
ExtractionErrors == {"No JSON found", "Unexpected token in JSON"}

\* performAnalysis of a got an agent output from which nothing could be extracted
ExtractionFailed(a) ==
    /\ IsSet(pa[a].aiAnalysis)
    /\ ~Val(pa[a].aiAnalysis).success
    /\ IsSet(Val(pa[a].aiAnalysis).error)
    /\ Val(Val(pa[a].aiAnalysis).error) \in ExtractionErrors

\* the quality result of an analysis that has no score of its own
DefaultQuality == [score |-> 75, grade |-> "C"]

\* C21: when nothing can be extracted from the agent's output (no JSON found, or malformed
\* JSON), the analysis is never failed for it: the workflow goes on to the completing
\* update, and from then on the record is completed with the default quality result.
C21_ExtractionFailureCompletes ==
    \A a \in AnalysisIds :
        ExtractionFailed(a) =>
            /\ pa[a].pc \in {"w_scoring", "w_completed", "await_fix", "cleanup", "done"}
            /\ ~IsSet(pa[a].error)
            /\ analyses[a].status # "failed"
            /\ pa[a].pc \in {"await_fix", "cleanup", "done"} =>
                  /\ analyses[a].status = "completed"
                  /\ analyses[a].code_quality = Some(DefaultQuality)
                  /\ ~IsSet(analyses[a].error)

\* a finished analysis whose agent output held an object that is not valid JSON
C21_Witness ==
    \E a \in AnalysisIds :
        /\ ExtractionFailed(a)
        /\ Val(Val(pa[a].aiAnalysis).error) = "Unexpected token in JSON"
        /\ pa[a].pc = "done"
        /\ analyses[a].status = "completed"
        /\ analyses[a].code_quality = Some(DefaultQuality)

-----------------------------------------------------------------------------
(* streamAnalysisProgress: one server-sent-event connection                *)

\* store reads of one stream that can be in flight at once: setInterval fires every
\* second whether or not the previous callback's read has resolved
MaxPolls == 2

\* req.params of a read request: the id of a job that analyzeRepository or
\* autonomousHighImpactFix answered with (ids hold a timestamp and a random suffix, so a
\* client knows none before that), or an id for which no record was ever created
UnknownIds == {0}
KnownAnalysisIds == {a \in AnalysisIds : pa[a].response = Some(200)}
KnownFixJobIds == {j \in FixJobIds : af[j].response = Some(200)}

\* .select("status, progress, current_step, total_steps, message").eq(...).single():
\* {data} holds the columns of the row, or there is an error and no data
SelectColumns(row) ==
    [status |-> row.status, progress |-> row.progress,
     current_step |-> row.current_step, message |-> row.message]

SelectProgress(a) ==
    IF a \in DOMAIN analyses THEN Some(SelectColumns(analyses[a])) ELSE Null

\* res.write(`event: ...\ndata: ...`) on a response: the call is recorded with the state
\* of the connection at the time (open: not ended by the handler, not closed by the client)
ResWrite(stream, event, data) ==
    [stream EXCEPT !.events =
        Append(@, [event |-> event, data |-> data,
                   open |-> ~stream.ended /\ ~stream.closed])]

\* as OpenStream, with the progress of a new job as the last progress
OpenStreamFromZero(a) ==
    ResWrite([fn |-> "streamAnalysisProgress", analysisId |-> a,
              lastProgress |-> 0, interval |-> TRUE, reads |-> <<>>,
              events |-> <<>>, ended |-> FALSE, closed |-> FALSE],
             "connected", Some(a))
\* the request arrives: the connected event is written, lastProgress = -1, the timer is set
\* and the close listener registered
OpenStream(a) ==
    ResWrite([fn |-> "streamAnalysisProgress", analysisId |-> a,
              lastProgress |-> -1, interval |-> TRUE, reads |-> <<>>,
              events |-> <<>>, ended |-> FALSE, closed |-> FALSE],
             "connected", Some(a))

StreamAnalysisProgress(a) ==
    /\ call = NoCall
    /\ call' = OpenStream(a)
    /\ UNCHANGED <<analyses, fixJobs, pa, fw, af, dirs, storeErrors>>

\* the timer fires: the callback issues its store read, which the store serves
StreamTick ==
    /\ call.fn = "streamAnalysisProgress"
    /\ call.interval
    /\ Len(call.reads) < MaxPolls
    /\ call' = [call EXCEPT !.reads = Append(@, SelectProgress(call.analysisId))]
    /\ UNCHANGED <<analyses, fixJobs, pa, fw, af, dirs, storeErrors>>

\* the sequence without its i-th element
RemoveAt(seq, i) == SubSeq(seq, 1, i - 1) \o SubSeq(seq, i + 1, Len(seq))

\* clearInterval(interval); res.end()
EndStream(stream) == [stream EXCEPT !.interval = FALSE, !.ended = TRUE]

\* the rest of the timer callback, after its read resolved with {data, error}
PollCallback(stream, data) ==
    IF ~IsSet(data)
    THEN EndStream(ResWrite(stream, "error", Some("Not found")))
    ELSE LET row == Val(data)
             progressed ==
                 IF row.progress # stream.lastProgress
                 THEN ResWrite([stream EXCEPT !.lastProgress = row.progress],
                               "progress", data)
                 ELSE stream
         IN  IF row.status \in {"completed", "failed"}
             THEN EndStream(ResWrite(progressed, row.status, Null))
             ELSE progressed

\* a read of the stream resolves and its callback runs to its end
StreamPoll ==
    /\ call.fn = "streamAnalysisProgress"
    /\ \E i \in 1..Len(call.reads) :
         call' = PollCallback([call EXCEPT !.reads = RemoveAt(@, i)], call.reads[i])
    /\ UNCHANGED <<analyses, fixJobs, pa, fw, af, dirs, storeErrors>>

\* the client disconnects: req emits close and the listener clears the timer
StreamClose ==
    /\ call.fn = "streamAnalysisProgress"
    /\ ~call.closed
    /\ ~call.ended
    /\ call' = [call EXCEPT !.closed = TRUE, !.interval = FALSE]
    /\ UNCHANGED <<analyses, fixJobs, pa, fw, af, dirs, storeErrors>>

\* an analyzeRepository request that asks for no follow-up fix
AnalyzeRepositoryOnly(a) ==
    /\ AnalyzeRepository(a)
    /\ ~pa'[a].enableAIFix
    /\ ~IsSet(pa'[a].accessToken)

\* analyses without a follow-up fix, and a stream of the progress of one
NextStream ==
    \/ \E a \in AnalysisIds :
          \/ AnalyzeRepositoryOnly(a) \/ AnalyzeRepositoryInsert(a) \/ PAMkdir(a)
          \/ PAWriteCloning(a) \/ PAClone(a) \/ PAWriteAnalyzing(a) \/ PAStructure(a)
          \/ PAWriteAiAnalyzing(a) \/ PARunAIAnalysis(a) \/ PAWriteScoring(a)
          \/ PAWriteCompleted(a) \/ PACleanup(a) \/ PAWriteFailed(a)
    \/ \E a \in KnownAnalysisIds \cup UnknownIds : StreamAnalysisProgress(a)
    \/ StreamTick \/ StreamPoll \/ StreamClose

SpecStream == Init /\ [][NextStream]_vars

-----------------------------------------------------------------------------
(* The timer callback of a stream applied to a given sequence of read results *)

\* the reads a sequence holds
MaxReads == 4

\* what a read of the progress columns can resolve with over the life of one analysis:
\* no row yet, or the row after one of the workflow's writes
ReadResults ==
    {Null}
    \cup {Some(SelectColumns(Merge(w, PendingRow))) :
            w \in {[status |-> "pending"], CloningWrite, AnalyzingWrite, AiAnalyzingWrite,
                   CompletedWrite(analyzeStructure(AnalysisDir(1)), [score |-> 75, grade |-> "C"],
                                  [success |-> FALSE]),
                   FailedWrite("Git clone failed"),
                   Merge(FailedWrite("Git clone failed"), CloningWrite)}}

\* reads resolve in any order (the timer does not wait for a callback), but an analysis
\* does not end both completed and failed
ReadSequences ==
    {reads \in [1..MaxReads -> ReadResults] :
        ~ /\ \E i \in 1..MaxReads : IsSet(reads[i]) /\ Val(reads[i]).status = "completed"
          /\ \E i \in 1..MaxReads : IsSet(reads[i]) /\ Val(reads[i]).status = "failed"}

InitPollCallback ==
    /\ InitTasks
    /\ storeErrors = 0
    /\ call \in {[fn |-> "pollCallback", reads |-> reads, resolved |-> 0,
                  stream |-> OpenStream(1)] : reads \in ReadSequences}

\* the next read resolves and its callback runs
PollCallbackNext ==
    /\ call.fn = "pollCallback"
    /\ call.resolved < Len(call.reads)
    /\ call' = [call EXCEPT !.resolved = @ + 1,
                            !.stream = PollCallback(@, call.reads[call.resolved + 1])]
    /\ UNCHANGED <<analyses, fixJobs, pa, fw, af, dirs, storeErrors>>

SpecPollCallback == InitPollCallback /\ [][PollCallbackNext]_vars

-----------------------------------------------------------------------------
(* The events of a stream                                                  *)

\* the progress values of the progress events among the written events
RECURSIVE ProgressWritten(_)
ProgressWritten(events) ==
    IF events = <<>> THEN <<>>
    ELSE IF Head(events).event = "progress"
    THEN <<Val(Head(events).data).progress>> \o ProgressWritten(Tail(events))
    ELSE ProgressWritten(Tail(events))

\* the progress values of the reads that resolved with a row, in the order they resolved
RECURSIVE ProgressRead(_)
ProgressRead(reads) ==
    IF reads = <<>> THEN <<>>
    ELSE IF IsSet(Head(reads))
    THEN <<Val(Head(reads)).progress>> \o ProgressRead(Tail(reads))
    ELSE ProgressRead(Tail(reads))

\* a sequence without the elements that repeat their predecessor
RECURSIVE WithoutRepeats(_)
WithoutRepeats(seq) ==
    IF Len(seq) <= 1 THEN seq
    ELSE IF seq[Len(seq)] = seq[Len(seq) - 1]
    THEN WithoutRepeats(SubSeq(seq, 1, Len(seq) - 1))
    ELSE Append(WithoutRepeats(SubSeq(seq, 1, Len(seq) - 1)), seq[Len(seq)])

ResolvedReads == SubSeq(call.reads, 1, call.resolved)

\* the reads of the example have all resolved: progress 0, 15, 15, 30
ReadZeroFifteenFifteenThirty ==
    /\ call.fn = "pollCallback"
    /\ call.resolved = 4
    /\ \A i \in 1..4 : IsSet(call.reads[i])
    /\ ProgressRead(ResolvedReads) = <<0, 15, 15, 30>>

EventNames(events) == [i \in 1..Len(events) |-> events[i].event]

\* a stream of the progress of a job that has a record
StreamOfJob ==
    /\ call.fn = "streamAnalysisProgress"
    /\ call.analysisId \in DOMAIN analyses

\* C23: for an existing job the events written are connected first, then progress events,
\* then exactly one terminal event, completed or failed as the stored status is; with it
\* the connection is ended and the timer cleared, and nothing is written after it.
C23_ConnectedProgressTerminal ==
    StreamOfJob =>
        LET names == EventNames(call.events)
        IN  /\ names[1] = "connected"
            /\ \A i \in 2..Len(names) : names[i] \in {"progress"} \cup Terminal
            /\ \A i \in 1..Len(names) :
                  names[i] \in Terminal =>
                      /\ i = Len(names)
                      /\ names[i] = analyses[call.analysisId].status
                      /\ call.ended
                      /\ ~call.interval
            /\ call.ended => names[Len(names)] \in Terminal


\* C24: once the client of a job's stream has disconnected, the stream's timer stays cleared,
\* the stream starts no store read and writes no event, and what the stream still does
\* leaves the job's record, its workflow and its workspace as they are.
C24_DisconnectedStreamIsSilent ==
    [][(StreamOfJob /\ call.closed) =>
          /\ call'.fn = "streamAnalysisProgress"
          /\ call'.closed
          /\ ~call'.interval
          /\ Len(call'.reads) <= Len(call.reads)
          /\ call'.events = call.events
          /\ call' # call => UNCHANGED <<analyses, fixJobs, pa, fw, af, dirs>>]_vars

-----------------------------------------------------------------------------
(* The read handlers: getAnalysis, getAnalysisProgress, getAutonomousFixStatus *)

\* .select(...).eq(key, id).single() resolves with the one matching row as data, or with
\* an error and no data when no row matches or the store fails
SelectSingle(table, id, outcome) ==
    IF outcome = "ok" /\ id \in DOMAIN table
    THEN [data |-> Some(table[id]), error |-> Null]
    ELSE [data |-> Null,
          error |-> Some(IF outcome = "ok" THEN "PGRST116" ELSE "store error")]

\* what a handler answers: res.status(404).json({error}) or res.json({success: true, ...})
NotFound(message) == [status |-> 404, error |-> Some(message), record |-> Null]
Found(record) == [status |-> 200, error |-> Null, record |-> Some(record)]

\* as getAnalysis, without the check of error and data
getAnalysisUnchecked(selected) == Found(selected.data)
\* getAnalysis after its select
getAnalysis(selected) ==
    IF IsSet(selected.error) \/ ~IsSet(selected.data)
    THEN NotFound("Analysis not found")
    ELSE Found(Val(selected.data))

\* getAnalysisProgress after its select
getAnalysisProgress(analysisId, selected) ==
    IF IsSet(selected.error) \/ ~IsSet(selected.data)
    THEN NotFound("Analysis not found")
    ELSE LET data == Val(selected.data)
         IN  Found([analysisId |-> analysisId, status |-> data.status,
                    progress |-> [percentage |-> data.progress,
                                  currentStep |-> data.current_step,
                                  message |-> data.message],
                    codeQuality |-> data.code_quality])

\* getAutonomousFixStatus after its select
getAutonomousFixStatus(selected) ==
    IF IsSet(selected.error) \/ ~IsSet(selected.data)
    THEN NotFound("Fix job not found")
    ELSE LET data == Val(selected.data)
         IN  Found([analysisId |-> data.analysis_id, status |-> data.status,
                    progress |-> data.progress, message |-> data.message,
                    highImpactIssues |-> data.high_impact_issues,
                    fixesApplied |-> data.fixes_applied,
                    filesModified |-> data.files_modified, prUrl |-> data.pr_url,
                    prNumber |-> data.pr_number, error |-> data.error,
                    createdAt |-> data.created_at, completedAt |-> data.completed_at])

\* a read request arrives and its handler issues its select
GetAnalysis(id) ==
    /\ call = NoCall
    /\ call' = [fn |-> "getAnalysis", id |-> id, pc |-> "select", response |-> Null]
    /\ UNCHANGED <<analyses, fixJobs, pa, fw, af, dirs, storeErrors>>

GetAnalysisProgress(id) ==
    /\ call = NoCall
    /\ call' = [fn |-> "getAnalysisProgress", id |-> id, pc |-> "select", response |-> Null]
    /\ UNCHANGED <<analyses, fixJobs, pa, fw, af, dirs, storeErrors>>

GetAutonomousFixStatus(id) ==
    /\ call = NoCall
    /\ call' = [fn |-> "getAutonomousFixStatus", id |-> id, pc |-> "select",
                response |-> Null]
    /\ UNCHANGED <<analyses, fixJobs, pa, fw, af, dirs, storeErrors>>

\* the select of a read request resolves and the handler answers
GetAnalysisRespond ==
    /\ call.fn = "getAnalysis"
    /\ call.pc = "select"
    /\ \E o \in StoreOutcomes :
         /\ storeErrors' = StoreErrorsAfter(o)
         /\ call' = [call EXCEPT !.pc = "done",
                                 !.response = Some(getAnalysis(SelectSingle(analyses, call.id, o)))]
    /\ UNCHANGED <<analyses, fixJobs, pa, fw, af, dirs>>

GetAnalysisProgressRespond ==
    /\ call.fn = "getAnalysisProgress"
    /\ call.pc = "select"
    /\ \E o \in StoreOutcomes :
         /\ storeErrors' = StoreErrorsAfter(o)
         /\ call' = [call EXCEPT !.pc = "done",
                                 !.response = Some(getAnalysisProgress(call.id,
                                                  SelectSingle(analyses, call.id, o)))]
    /\ UNCHANGED <<analyses, fixJobs, pa, fw, af, dirs>>

GetAutonomousFixStatusRespond ==
    /\ call.fn = "getAutonomousFixStatus"
    /\ call.pc = "select"
    /\ \E o \in StoreOutcomes :
         /\ storeErrors' = StoreErrorsAfter(o)
         /\ call' = [call EXCEPT !.pc = "done",
                                 !.response = Some(getAutonomousFixStatus(
                                                  SelectSingle(fixJobs, call.id, o)))]
    /\ UNCHANGED <<analyses, fixJobs, pa, fw, af, dirs>>

\* analyses without a follow-up fix, autonomous fixes, and one read request
NextRead ==
    \/ \E a \in AnalysisIds :
          \/ AnalyzeRepositoryOnly(a) \/ AnalyzeRepositoryInsert(a) \/ PAMkdir(a)
          \/ PAWriteCloning(a) \/ PAClone(a) \/ PAWriteAnalyzing(a) \/ PAStructure(a)
          \/ PAWriteAiAnalyzing(a) \/ PARunAIAnalysis(a) \/ PAWriteScoring(a)
          \/ PAWriteCompleted(a) \/ PACleanup(a) \/ PAWriteFailed(a)
    \/ \E j \in FixJobIds :
          \/ AutonomousHighImpactFix(j) \/ AutonomousHighImpactFixSelect(j)
          \/ AutonomousHighImpactFixInsert(j) \/ AFWriteAnalyzing(j)
          \/ AFWriteNoIssues(j) \/ AFWriteIssues(j) \/ AFWriteCloning(j) \/ AFMkdir(j)
          \/ AFClone(j) \/ AFWriteProgress(j) \/ AFGenerate(j) \/ AFRunCommand(j)
          \/ AFPush(j) \/ AFCreatePR(j) \/ AFWriteCompleted(j) \/ AFCleanup(j)
          \/ AFWriteFailed(j)
    \/ \E id \in KnownAnalysisIds \cup UnknownIds : GetAnalysis(id) \/ GetAnalysisProgress(id)
    \/ \E id \in KnownFixJobIds \cup UnknownIds : GetAutonomousFixStatus(id)
    \/ GetAnalysisRespond \/ GetAnalysisProgressRespond \/ GetAutonomousFixStatusRespond

SpecRead == Init /\ [][NextRead]_vars


ReadHandlers == {"getAnalysis", "getAnalysisProgress", "getAutonomousFixStatus"}

\* the table a read handler selects from
TableOf(fn) == IF fn = "getAutonomousFixStatus" THEN fixJobs ELSE analyses

\* C25: whatever the store holds, a read handler asked for an id that has no record
\* answers Not-Found (404 with an error message and no record); every read request is
\* answered, and neither its arrival nor its answer changes the store.
C25_NeverCreatedIsNotFound ==
    [][/\ (call = NoCall /\ call'.fn \in ReadHandlers) =>
              /\ call'.pc = "select"
              /\ UNCHANGED <<analyses, fixJobs>>
       /\ (call.fn \in ReadHandlers /\ call' # call) =>
              /\ call.pc = "select"
              /\ call'.pc = "done"
              /\ IsSet(call'.response)
              /\ UNCHANGED <<analyses, fixJobs>>
              /\ call.id \notin DOMAIN TableOf(call.fn) =>
                    /\ Val(call'.response).status = 404
                    /\ IsSet(Val(call'.response).error)
                    /\ ~IsSet(Val(call'.response).record)]_vars

\* getAnalysis answered 404 for an id never created while the store holds records
C25_Witness ==
    /\ call.fn = "getAnalysis"
    /\ call.pc = "done"
    /\ call.id \in UnknownIds
    /\ Val(call.response) = NotFound("Analysis not found")
    /\ DOMAIN analyses # {}
    /\ DOMAIN fixJobs # {}

-----------------------------------------------------------------------------
(* Fixes triggered again and again for one finished analysis               *)

\* the triggerAIFix requests for the analysis
MaxRetriggered == 2

RetriggerIds == 1..MaxRetriggered

\* performAnalysis of analysis 1 has run to its end without a follow-up fix: the agent
\* gave its full answer, the record is completed and the workspace released
FinishedAiAnalysis ==
    runAIAnalysis([ok |-> TRUE, error |-> "",
                   output |-> <<"x", "{", "architecture", "codeQuality", "security", "}">>])

FinishedRow ==
    Merge(CompletedWrite(analyzeStructure(AnalysisDir(1)),
                         calculateScore(FinishedAiAnalysis), FinishedAiAnalysis),
          Merge(ScoringWrite, PendingRow))

FinishedAnalysis ==
    [IdleAnalysis EXCEPT !.pc = "done", !.tempDir = Some(AnalysisDir(1)),
                         !.structure = Some(analyzeStructure(AnalysisDir(1))),
                         !.aiAnalysis = Some(FinishedAiAnalysis),
                         !.created = TRUE, !.cleaned = TRUE, !.response = Some(200)]

InitRetrigger ==
    /\ analyses = (1 :> FinishedRow)
    /\ fixJobs = << >>
    /\ pa = [a \in AnalysisIds |-> FinishedAnalysis]
    /\ fw = [k \in FixWorkflowIds \cup {<<"trigger", t>> : t \in RetriggerIds} |->
                IdleFixWorkflow]
    /\ af = [j \in FixJobIds |-> IdleAutofix]
    /\ dirs = {}
    /\ storeErrors = 0
    /\ call = NoCall

NextRetrigger ==
    \/ \E t \in RetriggerIds : TriggerAIFix(t) \/ TriggerAIFixSelect(t)
    \/ \E t \in RetriggerIds :
          LET k == <<"trigger", t>>
          IN  \/ FWMkdir(k) \/ FWClone(k) \/ FWRunCommand(k) \/ FWRunAIFix(k) \/ FWPush(k)
              \/ FWCreatePR(k) \/ FWWriteResult(k) \/ FWCleanup(k) \/ FWWriteError(k)

SpecRetrigger == InitRetrigger /\ [][NextRetrigger]_vars

\* the analysis of InitRetrigger is one the program reaches
FinishedAnalysisReached ==
    /\ 1 \in DOMAIN analyses
    /\ analyses[1] = FinishedRow
    /\ pa[1] = FinishedAnalysis
    /\ dirs = {}


\* a workflow that is running on a workspace: it has chosen its directory and has neither
\* finished nor handed the directory to the follow-up fix it awaits
Working(task) ==
    /\ IsSet(task.tempDir)
    /\ task.pc \notin {"idle", "insert", "select", "rejected", "await_fix", "done", "crashed"}

\* the running workflows, each with the directory it works on
Workspaces ==
    {<<<<"analysis", a>>, Val(pa[a].tempDir)>> : a \in {b \in DOMAIN pa : Working(pa[b])}}
    \cup {<<<<"fix", k>>, Val(fw[k].tempDir)>> : k \in {l \in DOMAIN fw : Working(fw[l])}}
    \cup {<<<<"autofix", j>>, Val(af[j].tempDir)>> : j \in {i \in DOMAIN af : Working(af[i])}}

\* C26: whatever the order of the create-analysis, trigger-fix and autonomous-fix
\* requests, no two running workflows work on the same workspace directory at a time.
C26_WorkspaceOfOneWorkflow ==
    \A u, v \in Workspaces : u[2] = v[2] => u[1] = v[1]


\* a running workflow that still has updates of its record ahead
Writing(task) == Working(task) /\ task.pc # "cleanup"

\* the running workflow instances that write the record of analysis a: its performAnalysis
\* and the runAIFixWorkflow instances called for it
AnalysisWriters(a) ==
    {<<"analysis", b>> : b \in {c \in DOMAIN pa : c = a /\ Writing(pa[c])}}
    \cup {<<"fix", k>> : k \in {l \in DOMAIN fw : fw[l].analysisId = a /\ Writing(fw[l])}}

\* the running workflow instances that write the record of fix job j
FixJobWriters(j) == {<<"autofix", i>> : i \in {h \in DOMAIN af : h = j /\ Writing(af[h])}}

\* C27: whatever the order of the create-analysis, trigger-fix and autonomous-fix
\* requests, an analysis record and a fix-job record each have at most one running
\* workflow instance writing them at a time.
C27_OneWriterPerRecord ==
    /\ \A a \in AnalysisIds : Cardinality(AnalysisWriters(a)) <= 1
    /\ \A j \in FixJobIds : Cardinality(FixJobWriters(j)) <= 1

-----------------------------------------------------------------------------
(* Workflows whose git clone may never exit                                *)

\* the steps of performAnalysis that the program takes by itself once they are enabled:
\* all but the request's arrival and the exit of the git clone process
PAProgramSteps(a) ==
    \/ AnalyzeRepositoryInsert(a) \/ PAMkdir(a) \/ PAWriteCloning(a)
    \/ PAWriteAnalyzing(a) \/ PAStructure(a) \/ PAWriteAiAnalyzing(a)
    \/ PARunAIAnalysis(a) \/ PAWriteScoring(a) \/ PAWriteCompleted(a)
    \/ PACleanup(a) \/ PAWriteFailed(a)

\* the same for runAutonomousHighImpactFix
AFProgramSteps(j) ==
    \/ AutonomousHighImpactFixSelect(j) \/ AutonomousHighImpactFixInsert(j)
    \/ AFWriteAnalyzing(j) \/ AFWriteNoIssues(j) \/ AFWriteIssues(j) \/ AFWriteCloning(j)
    \/ AFMkdir(j) \/ AFWriteProgress(j) \/ AFGenerate(j) \/ AFRunCommand(j)
    \/ AFPush(j) \/ AFCreatePR(j) \/ AFWriteCompleted(j) \/ AFCleanup(j)
    \/ AFWriteFailed(j)

NextClone ==
    \/ \E a \in AnalysisIds : AnalyzeRepositoryOnly(a) \/ PAProgramSteps(a) \/ PAClone(a)
    \/ \E j \in FixJobIds : AutonomousHighImpactFix(j) \/ AFProgramSteps(j) \/ AFClone(j)

\* the event loop runs every callback that is ready; nothing in cloneRepository makes the
\* close event of the git process come
SpecClone ==
    /\ Init
    /\ [][NextClone]_vars
    /\ \A a \in AnalysisIds : WF_vars(PAProgramSteps(a))
    /\ \A j \in FixJobIds : WF_vars(AFProgramSteps(j))

\* the stored status of a job, "none" while it has no record
StatusOf(table, id) == IF id \in DOMAIN table THEN table[id].status ELSE "none"

\* C28: a git clone that a workflow started does not keep its job in status cloning: it
\* exits, or it is killed when its five minutes are over and the job becomes failed.
C28_CloneEndsOrJobFails ==
    /\ \A a \in AnalysisIds :
          (pa[a].pc = "clone") ~> (StatusOf(analyses, a) # "cloning")
    /\ \A j \in FixJobIds :
          (af[j].pc = "clone") ~> (StatusOf(fixJobs, j) # "cloning")


\* the stderr texts of a failed clone that contain 404
NotFoundStderr == {"fatal: repository not found (404)"}

\* what cloneRepository rejects with after a nonzero exit, whatever the stderr says
GitCloneFailed(stderr) == "Git clone failed: " \o stderr

\* performAnalysis of a is over after a clone that exited nonzero with a 404 in its stderr
CloneNotFound(a) ==
    /\ pa[a].pc = "done"
    /\ pa[a].raised
    /\ \E stderr \in NotFoundStderr : pa[a].error = Some(GitCloneFailed(stderr))

\* C29: after a clone that exits nonzero with a stderr containing 404, the analysis ends
\* failed with an error value that names the failure as not-found and is not the error
\* value a generic clone failure gets, and its workspace directory is removed.
C29_CloneNotFoundClassified ==
    \A a \in AnalysisIds :
        CloneNotFound(a) =>
            /\ analyses[a].status = "failed"
            /\ IsSet(analyses[a].error)
            /\ Val(analyses[a].error) \notin {GitCloneFailed(stderr) : stderr \in CloneStderr}
            /\ Val(pa[a].tempDir) \notin dirs


\* text.includes(part)
Includes(text, part) ==
    \E i \in 1..(Len(text) - Len(part) + 1) : SubSeq(text, i, i + Len(part) - 1) = part

\* the texts held by the fields of an analysis record and of a fix-job record
AnalysisTexts(row) ==
    {row.message}
    \cup (IF IsSet(row.error) THEN {Val(row.error)} ELSE {})
    \cup (IF IsSet(row.ai_fix_result)
          THEN {Val(row.ai_fix_result).error, Val(row.ai_fix_result).pr_url}
          ELSE {})

FixJobTexts(row) ==
    {row.message}
    \cup (IF IsSet(row.error) THEN {Val(row.error)} ELSE {})
    \cup (IF IsSet(row.pr_url) THEN {Val(row.pr_url)} ELSE {})

\* the access tokens the fix requests so far were given
SuppliedTokens ==
    {Val(fw[k].accessToken) : k \in {l \in DOMAIN fw : IsSet(fw[l].accessToken)}}
    \cup {Val(af[j].accessToken) : j \in {i \in DOMAIN af : IsSet(af[i].accessToken)}}
    \cup {Val(pa[a].accessToken) : a \in {b \in DOMAIN pa : IsSet(pa[b].accessToken)}}

\* C30: no field of a job record (error and ai_fix_result included) ever holds the access
\* token that a fix request was given, so no get or status endpoint, which answer with
\* the record's fields, returns it; this on every path, a failed push included.
C30_TokenInNoRecord ==
    \A token \in SuppliedTokens :
        /\ \A a \in DOMAIN analyses :
              \A text \in AnalysisTexts(analyses[a]) : ~Includes(text, token)
        /\ \A j \in DOMAIN fixJobs :
              \A text \in FixJobTexts(fixJobs[j]) : ~Includes(text, token)

-----------------------------------------------------------------------------
(* Workflows beside the records of earlier jobs                            *)

\* the ids of an analysis and a fix job that ended before the requests of the model arrive
EarlierAnalysisId == MaxAnalyses + 1
EarlierFixJobId == MaxFixJobs + 1

\* the record of a fix job that found no high-impact issue
EarlierFixJobRow ==
    Merge(NoIssuesWrite, Merge(FixAnalyzingWrite, InitializingRow(EarlierAnalysisId)))

\* the store holds the records of an earlier analysis and an earlier fix job, and answers
\* up to MaxStoreErrors writes with an error
InitEarlierRecords ==
    /\ analyses = (EarlierAnalysisId :> FinishedRow)
    /\ fixJobs = (EarlierFixJobId :> EarlierFixJobRow)
    /\ pa = [a \in AnalysisIds |-> IdleAnalysis]
    /\ fw = [k \in FixWorkflowIds |-> IdleFixWorkflow]
    /\ af = [j \in FixJobIds |-> IdleAutofix]
    /\ dirs = {}
    /\ storeErrors = MaxStoreErrors
    /\ call = NoCall

SpecEarlierRecords == InitEarlierRecords /\ [][NextClone]_vars

\* the columns of a record in which two versions of it differ
ChangedColumns(old, new) == {c \in DOMAIN old : new[c] # old[c]}

\* the records of a table that a step changed
ChangedRecords(old, new) == {id \in DOMAIN old : id \in DOMAIN new /\ new[id] # old[id]}

\* the columns that identify the subject of a record
AnalysisIdentity == {"user_id", "repo_url", "repo_name", "repo_owner"}
FixJobIdentity == {"analysis_id", "repo_name", "repo_owner"}

\* the columns updateProgress and updateFixJobProgress list
ProgressColumns == {"status", "progress", "current_step", "message"}
FixProgressColumns == {"status", "progress", "message", "updated_at"}

-----------------------------------------------------------------------------
(* The candidates of extractJSON                                           *)

\* the "}" that matches the "{" at position i, 0 when that brace is never closed
MatchingBrace(text, i) ==
    IF \E j \in i..Len(text) : BalancedAt(text, i, j)
    THEN CHOOSE j \in i..Len(text) : BalancedAt(text, i, j)
    ELSE 0

\* the balanced-brace substrings of text[i..] that lie in no other one, in order of appearance
RECURSIVE BalancedSubstrings(_, _)
BalancedSubstrings(text, i) ==
    IF i > Len(text) THEN <<>>
    ELSE IF text[i] = "{" /\ MatchingBrace(text, i) # 0
    THEN <<SubSeq(text, i, MatchingBrace(text, i))>>
            \o BalancedSubstrings(text, MatchingBrace(text, i) + 1)
    ELSE BalancedSubstrings(text, i + 1)

\* C32: the candidates extractJSON collects from a text are its balanced-brace
\* substrings in order of appearance: every "{" outside the candidates before it from
\* which the brace depth returns to zero gives the candidate that ends at its matching
\* "}".
C32_CandidatesAreBalancedSubstrings ==
    ExtractReturned => allJsonMatches(call.arg) = BalancedSubstrings(call.arg, 1)

-----------------------------------------------------------------------------
(* Fix generation: parseClineCodeOutput on its own, and the fix jobs that use it *)

\* the findings of an agent answer that parseClineCodeOutput gets the issues of
MaxFindings == 2

\* what a finding records as its file: nothing, or a path
FindingFiles == {Null, Some("src/db.js"), Some("src/app.js")}

HighFindings(files) == [i \in 1..Len(files) |-> [severity |-> "high", file |-> files[i]]]

\* the issue lists parseClineCodeOutput is called with
ParseIssues ==
    {identifyHighImpactIssues(
        [ai_analysis |-> Some([security |-> HighFindings(files), bugs |-> <<>>])]) :
        files \in UNION {[1..n -> FindingFiles] : n \in 1..MaxFindings}}

\* the file paths matched in the agent's stdout, in the order of the matches
ParseOutputs == FixOutputs \cup {<<"src/app.js", "src/util.js", "src/app.js">>}

\* the record of a finished analysis whose agent answer held these security findings
FinishedRowWith(security) ==
    Merge([ai_analysis |-> Some([FinishedAiAnalysis EXCEPT !.security = security])],
          FinishedRow)

\* finished analyses: without a finding, with a finding that records no file, with one
\* that records its file
FixableRows ==
    {FinishedRowWith(<<>>)}
    \cup {FinishedRowWith(HighFindings(<<file>>)) : file \in {Null, Some("src/db.js")}}

InitFixGeneration ==
    /\ analyses \in {(1 :> row) : row \in FixableRows}
    /\ fixJobs = << >>
    /\ pa = [a \in AnalysisIds |-> FinishedAnalysis]
    /\ fw = [k \in FixWorkflowIds |-> IdleFixWorkflow]
    /\ af = [j \in FixJobIds |-> IdleAutofix]
    /\ dirs = {}
    /\ storeErrors = 0
    /\ call \in {[fn |-> "parseClineCodeOutput", pc |-> "called",
                   arg |-> [outputFiles |-> o, issues |-> i], result |-> Null] :
                    o \in ParseOutputs, i \in ParseIssues}

\* the call returns
ParseClineCodeOutput ==
    /\ call.fn = "parseClineCodeOutput"
    /\ call.pc = "called"
    /\ call' = [call EXCEPT
                  !.pc = "returned",
                  !.result = Some(parseClineCodeOutput(call.arg.outputFiles, call.arg.issues))]
    /\ UNCHANGED <<analyses, fixJobs, pa, fw, af, dirs, storeErrors>>

NextFixGeneration ==
    \/ ParseClineCodeOutput
    \/ \E j \in FixJobIds : AutonomousHighImpactFix(j) \/ AFProgramSteps(j) \/ AFClone(j)

SpecFixGeneration == InitFixGeneration /\ [][NextFixGeneration]_vars

\* the elements of a sequence
Range(seq) == {seq[i] : i \in 1..Len(seq)}

\* every element of the sequence occurs in it once
NoDuplicates(seq) == \A i, k \in 1..Len(seq) : seq[i] = seq[k] => i = k

\* the file paths the issues record
RecordedFiles(issues) == {Val(issues[i].file) : i \in {n \in 1..Len(issues) : IsSet(issues[n].file)}}

\* the error of a fix job whose agent output and issues name no file
ParseFailed == "Fix generation failed: Failed to parse Cline output"

\* C33: parseClineCodeOutput returns the file paths matched in the agent output; with
\* none matched, the file paths recorded on the issues; with none recorded either, the
\* failure "No files identified".  A fix job whose fix generation failed so has issues
\* that record no file, and it ends failed with its progress still that of the fixing
\* step and without files_modified, pr_url or pr_number: no step of the commit, the
\* push or the pull request was started.
C33_NoFilesFailsBeforeCommit ==
    /\ (call.fn = "parseClineCodeOutput" /\ call.pc = "returned") =>
          LET result == Val(call.result)
              matched == Range(call.arg.outputFiles)
              recorded == RecordedFiles(call.arg.issues)
          IN  /\ NoDuplicates(result.filesModified)
              /\ matched # {} => result.success /\ Range(result.filesModified) = matched
              /\ matched = {} /\ recorded # {} =>
                    result.success /\ Range(result.filesModified) = recorded
              /\ matched = {} /\ recorded = {} =>
                    ~result.success /\ result.error = "No files identified"
    /\ \A j \in FixJobIds :
          af[j].error = Some(ParseFailed) =>
              /\ RecordedFiles(af[j].issues) = {}
              /\ af[j].pc \in {"w_failed", "cleanup", "done"}
              /\ ~IsSet(af[j].fixResult)
              /\ j \in DOMAIN fixJobs
              /\ fixJobs[j].progress = 40
              /\ ~IsSet(fixJobs[j].files_modified)
              /\ ~IsSet(fixJobs[j].pr_url)
              /\ ~IsSet(fixJobs[j].pr_number)
              /\ af[j].pc # "w_failed" =>
                    fixJobs[j].status = "failed" /\ fixJobs[j].error = Some(ParseFailed)

\* a call with no file matched and none recorded has reported the failure, and a fix job
\* has ended failed for it
C33_Witness ==
    /\ call.fn = "parseClineCodeOutput"
    /\ call.pc = "returned"
    /\ ~Val(call.result).success
    /\ \E j \in FixJobIds :
          /\ af[j].pc = "done"
          /\ af[j].error = Some(ParseFailed)
          /\ fixJobs[j].status = "failed"

-----------------------------------------------------------------------------
(* runClineTask: the agent process, its stdout and the ten-minute timer     *)

\* how many chunks of stdout arrive at most
MaxChunks == 3

\* output.length > 100
MinOutputLength == 100

\* a chunk of stdout, by its number of characters
ChunkLengths == {1, MinOutputLength}

\* output.length
RECURSIVE OutputLength(_)
OutputLength(output) ==
    IF Len(output) = 0 THEN 0 ELSE Head(output) + OutputLength(Tail(output))

\* the exit codes of the close event: null for a process ended by a signal
ExitCodes == {Some(0), Some(1), Null}

\* spawn has returned: no event of the process has come, the timer is set
InitRunClineTask ==
    /\ InitTasks
    /\ storeErrors = 0
    /\ call = [fn |-> "runClineTask", output |-> <<>>, spawned |-> TRUE, closed |-> FALSE,
               killed |-> FALSE, timer |-> "set", settled |-> Null, handled |-> <<>>]

\* resolve and reject: the first call settles the promise, every later one does nothing
Settle(task, result) ==
    IF IsSet(task.settled) THEN task ELSE [task EXCEPT !.settled = Some(result)]

Resolved(output) == [ok |-> TRUE, output |-> output, error |-> ""]
Rejected(message) == [ok |-> FALSE, output |-> <<>>, error |-> message]

\* proc.stdout.on("data"): the chunk is appended to output
StdoutData ==
    /\ call.fn = "runClineTask"
    /\ call.spawned /\ ~call.closed
    /\ Len(call.output) < MaxChunks
    /\ \E d \in ChunkLengths : call' = [call EXCEPT !.output = Append(@, d)]
    /\ UNCHANGED <<analyses, fixJobs, pa, fw, af, dirs, storeErrors>>

\* as ProcClose, resolving only on exit code 0
ProcCloseExitCodeOnly ==
    /\ call.fn = "runClineTask"
    /\ ~call.closed
    /\ \E code \in ExitCodes :
         /\ code = Null => call.killed
         /\ ~call.spawned => code = Some(1)
         /\ call' = [Settle(call, IF code = Some(0)
                                  THEN Resolved(call.output)
                                  ELSE Rejected("Cline execution failed"))
                       EXCEPT !.closed = TRUE,
                              !.handled = Append(@, [event |-> "close", code |-> code,
                                                     output |-> call.output])]
    /\ UNCHANGED <<analyses, fixJobs, pa, fw, af, dirs, storeErrors>>
\* proc.on("close"): the process has ended and its stdout is closed
ProcClose ==
    /\ call.fn = "runClineTask"
    /\ ~call.closed
    /\ \E code \in ExitCodes :
         /\ code = Null => call.killed
         /\ ~call.spawned => code = Some(1)
         /\ call' = [Settle(call, IF code = Some(0)
                                     \/ OutputLength(call.output) > MinOutputLength
                                  THEN Resolved(call.output)
                                  ELSE Rejected("Cline execution failed"))
                       EXCEPT !.closed = TRUE,
                              !.handled = Append(@, [event |-> "close", code |-> code,
                                                     output |-> call.output])]
    /\ UNCHANGED <<analyses, fixJobs, pa, fw, af, dirs, storeErrors>>

\* proc.on("error", reject): the process could not be spawned
ProcError ==
    /\ call.fn = "runClineTask"
    /\ call.spawned /\ ~call.closed /\ ~call.killed
    /\ call.output = <<>>
    /\ call' = [Settle(call, Rejected("spawn wsl ENOENT"))
                  EXCEPT !.spawned = FALSE,
                         !.handled = Append(@, [event |-> "error", code |-> Null,
                                                output |-> call.output])]
    /\ UNCHANGED <<analyses, fixJobs, pa, fw, af, dirs, storeErrors>>

\* the callback of setTimeout(..., 600000): the timer is never cleared
ClineTimeout ==
    /\ call.fn = "runClineTask"
    /\ call.timer = "set"
    /\ call' = [Settle(call, IF OutputLength(call.output) > 0
                             THEN Resolved(call.output)
                             ELSE Rejected("Cline timeout"))
                  EXCEPT !.timer = "fired",
                         !.killed = call.spawned /\ ~call.closed,
                         !.handled = Append(@, [event |-> "timeout", code |-> Null,
                                                output |-> call.output])]
    /\ UNCHANGED <<analyses, fixJobs, pa, fw, af, dirs, storeErrors>>

NextRunClineTask == StdoutData \/ ProcClose \/ ProcError \/ ClineTimeout

SpecRunClineTask == InitRunClineTask /\ [][NextRunClineTask]_vars

\* what the claim gives as the outcome of the first of the events close, error and
\* timeout that is handled
ExpectedOutcome(first) ==
    IF \/ first.event = "close" /\ first.code = Some(0)
       \/ first.event = "close" /\ first.code # Some(0)
            /\ OutputLength(first.output) > 100
       \/ first.event = "timeout" /\ OutputLength(first.output) > 0
    THEN [ok |-> TRUE, output |-> first.output]
    ELSE [ok |-> FALSE, output |-> <<>>]

\* C34: runClineTask is settled by the first of the events close, error and timeout, and
\* never again: it succeeds with the stdout captured so far exactly when that event is
\* the exit of the process with code 0, or its exit with another code and more than 100
\* characters of stdout, or the timeout with a non-empty stdout; else it fails.
C34_SettledOnceByFirstEvent ==
    [][/\ call'.handled = <<>> <=> ~IsSet(call'.settled)
       /\ IsSet(call'.settled) =>
            /\ Val(call'.settled).ok = ExpectedOutcome(call'.handled[1]).ok
            /\ Val(call'.settled).output = ExpectedOutcome(call'.handled[1]).output
       /\ IsSet(call.settled) => call'.settled = call.settled
      ]_vars

\* the timeout resolved the task with a short stdout and killed the process, whose close
\* event came afterwards
C34_Witness ==
    /\ call.fn = "runClineTask"
    /\ Len(call.handled) = 2
    /\ call.handled[1].event = "timeout"
    /\ call.handled[2].event = "close"
    /\ call.handled[2].code = Null
    /\ IsSet(call.settled)
    /\ Val(call.settled).ok
    /\ OutputLength(Val(call.settled).output) = 1

-----------------------------------------------------------------------------
(* The write of a step and the external action of the step                 *)

\* the external actions of performAnalysis, by the position of the task while the action
\* is under way, and the status and progress written for their step
AnalysisActions ==
    [clone |-> CloningWrite, structure |-> AnalyzingWrite, ai |-> AiAnalyzingWrite]

\* the same for runAutonomousHighImpactFix
FixJobActions ==
    [mkdir |-> FixCloningWrite, clone |-> FixCloningWrite, generate |-> FixFixingWrite,
     config_name |-> FixCommittingWrite, config_email |-> FixCommittingWrite,
     checkout |-> FixCommittingWrite, add |-> FixCommittingWrite,
     commit |-> FixCommittingWrite, push |-> FixPushingWrite, pr |-> FixCreatingPrWrite]

\* the record holds the status and progress of the step whose action is under way
StepStored ==
    /\ \A a \in AnalysisIds :
          pa[a].pc \in DOMAIN AnalysisActions =>
              /\ a \in DOMAIN analyses
              /\ analyses[a].status = AnalysisActions[pa[a].pc].status
              /\ analyses[a].progress = AnalysisActions[pa[a].pc].progress
    /\ \A j \in FixJobIds :
          af[j].pc \in DOMAIN FixJobActions =>
              /\ j \in DOMAIN fixJobs
              /\ fixJobs[j].status = FixJobActions[af[j].pc].status
              /\ fixJobs[j].progress = FixJobActions[af[j].pc].progress

\* a read request is answered in this step
Answered(fn) == call.fn = fn /\ call.pc = "select" /\ call'.pc = "done"

\* C35: while an external action of a job is under way (git clone, the structure scan,
\* the agent, the git commands, the push, the pull-request call), the job's record holds
\* the status and progress of that step, and a get or progress read answered meanwhile
\* shows that status.
C35_StepStoredBeforeAction ==
    [][/\ StepStored'
       /\ \A a \in AnalysisIds :
            /\ Answered("getAnalysis") \/ Answered("getAnalysisProgress")
            /\ call.id = a
            /\ pa[a].pc \in DOMAIN AnalysisActions
            => /\ Val(call'.response).status = 200
               /\ Val(Val(call'.response).record).status = AnalysisActions[pa[a].pc].status
       /\ \A j \in FixJobIds :
            /\ Answered("getAutonomousFixStatus")
            /\ call.id = j
            /\ af[j].pc \in DOMAIN FixJobActions
            => /\ Val(call'.response).status = 200
               /\ Val(Val(call'.response).record).status = FixJobActions[af[j].pc].status
      ]_vars

\* a status read was answered with "pushing" while the push of the job is under way
C35_Witness ==
    /\ call.fn = "getAutonomousFixStatus"
    /\ call.pc = "done"
    /\ call.id \in FixJobIds
    /\ af[call.id].pc = "push"
    /\ Val(Val(call.response).record).status = "pushing"

-----------------------------------------------------------------------------
(* The order of the steps that publish a fix                               *)

\* the positions of runAutonomousHighImpactFix from the commit to the completing write,
\* each with the position whose step has to succeed for the task to come to it
FixStepBefore ==
    [w_committing |-> "generate", config_name |-> "w_committing",
     config_email |-> "config_name", checkout |-> "config_email", add |-> "checkout",
     commit |-> "add", w_pushing |-> "commit", push |-> "w_pushing",
     w_creating_pr |-> "push", pr |-> "w_creating_pr", w_completed |-> "pr"]

\* C36: a fix job comes to each of the steps commit (git config, checkout -b, add,
\* commit), push and pull request only from the success of the step before it, the first
\* of them from a successful fix generation; and pr_url and pr_number change only in the
\* write that sets status completed.
C36_PublishInOrder ==
    [][\A j \in FixJobIds :
          /\ af'[j].pc # af[j].pc /\ af'[j].pc \in DOMAIN FixStepBefore =>
                /\ af[j].pc = FixStepBefore[af'[j].pc]
                /\ IsSet(af'[j].fixResult)
                /\ Val(af'[j].fixResult).success
                /\ ~IsSet(af'[j].error)
          /\ j \in DOMAIN fixJobs =>
                /\ IsSet(fixJobs[j].pr_url) \/ IsSet(fixJobs[j].pr_number) =>
                      fixJobs'[j] = fixJobs[j]
                /\ fixJobs'[j].pr_url # fixJobs[j].pr_url
                     \/ fixJobs'[j].pr_number # fixJobs[j].pr_number =>
                      /\ af[j].pc = "w_completed"
                      /\ fixJobs[j].status = "creating_pr"
                      /\ fixJobs'[j].status = "completed"
                      /\ IsSet(fixJobs'[j].pr_url)
                      /\ IsSet(fixJobs'[j].pr_number)
      ]_vars

\* a fix job has gone through commit, push and pull request and stored the pull request
C36_Witness ==
    \E j \in DOMAIN fixJobs :
        /\ af[j].pc = "done"
        /\ fixJobs[j].status = "completed"
        /\ fixJobs[j].pr_number = Some(7)
        /\ fixJobs[j].pr_url = Some("https://github.com/pull/7")

-----------------------------------------------------------------------------
(* calculateScore on the scores an agent answer may carry                   *)

\* how far below 0 and above 100 the scores of an agent answer go
MaxScoreExcess == 10

\* codeQuality of the agent's JSON: no such member, an object without a score, or an
\* object with a number as its score
ReportedCodeQuality ==
    {Null, Some([score |-> Null])}
    \cup {Some([score |-> Some(n)]) : n \in (0 - MaxScoreExcess)..(100 + MaxScoreExcess)}

\* jsonData.codeQuality || { score: 75, issues: [] }
CodeQualityOrDefault(reported) ==
    IF IsSet(reported) THEN Val(reported) ELSE [score |-> Some(75)]

\* the analysis object of runAIAnalysis for this codeQuality; a score that is undefined
\* is as falsy as 0
AiAnalysisWith(reported) ==
    LET codeQuality == CodeQualityOrDefault(reported)
    IN  [success |-> TRUE, error |-> Null, pattern |-> "MVC",
         score |-> IF IsSet(codeQuality.score) THEN Val(codeQuality.score) ELSE 0,
         bugs |-> <<>>, security |-> <<>>]

InitCalculateScore ==
    /\ InitTasks
    /\ storeErrors = 0
    /\ call \in {[fn |-> "calculateScore", pc |-> "called", arg |-> reported,
                   result |-> Null] : reported \in ReportedCodeQuality}

\* the score is calculated for the completing write
CalculateScore ==
    /\ call.fn = "calculateScore"
    /\ call.pc = "called"
    /\ call' = [call EXCEPT !.pc = "returned",
                            !.result = Some(calculateScore(AiAnalysisWith(call.arg)))]
    /\ UNCHANGED <<analyses, fixJobs, pa, fw, af, dirs, storeErrors>>

SpecCalculateScore == InitCalculateScore /\ [][CalculateScore]_vars

\* C37: the score of the code_quality calculated for a completed analysis is within
\* 0..100; it is the score the agent reported when that is a number in 0..100, and 75
\* when the agent reported no score.
C37_ScoreWithinRange ==
    call.fn = "calculateScore" /\ call.pc = "returned" =>
        LET score == Val(call.result).score
            reported == CodeQualityOrDefault(call.arg).score
        IN  /\ score \in 0..100
            /\ IsSet(reported) /\ Val(reported) \in 0..100 => score = Val(reported)
            /\ ~IsSet(reported) => score = 75

-----------------------------------------------------------------------------
(* Overlapping polls of one stream                                         *)

\* the positions, among the events a stream has written, of the events that end it
EndingEvents(events) ==
    {i \in 1..Len(events) : events[i].event \in Terminal \cup {"error"}}

\* C38: in every interleaving of the polling callbacks of a stream with each other and
\* with the client's disconnect, the stream writes at most one terminal or error event,
\* and that event is the last write to the connection.
C38_OneEndingEventAndNoWriteAfter ==
    call.fn = "streamAnalysisProgress" =>
        /\ Cardinality(EndingEvents(call.events)) <= 1
        /\ \A i \in EndingEvents(call.events) : i = Len(call.events)

-----------------------------------------------------------------------------
(* Termination of the jobs                                                 *)

\* C39: every analysis job and fix job that has a record eventually has the status
\* completed or failed, whatever the spawned processes do (exit, or hang), when the
\* program takes every step that is ready.
C39_EveryJobEnds ==
    /\ \A a \in AnalysisIds :
          (a \in DOMAIN analyses) ~> (StatusOf(analyses, a) \in Terminal)
    /\ \A j \in FixJobIds :
          (j \in DOMAIN fixJobs) ~> (StatusOf(fixJobs, j) \in Terminal)

-----------------------------------------------------------------------------
(* The insert of a new job                                                 *)

\* C40: an analysis or fix job whose creator was answered with success has a record in
\* the store, and a request without a record has started no workflow: its task is
\* before the insert or was rejected.
C40_AnsweredJobHasRecord ==
    /\ \A a \in AnalysisIds :
          /\ pa[a].response = Some(200) => a \in DOMAIN analyses
          /\ a \notin DOMAIN analyses => pa[a].pc \in {"idle", "insert", "rejected"}
    /\ \A j \in FixJobIds :
          /\ af[j].response = Some(200) => j \in DOMAIN fixJobs
          /\ j \notin DOMAIN fixJobs => af[j].pc \in {"idle", "select", "insert", "rejected"}

====
